---- MODULE Spec2Model ----
(***************************************************************************)
(* Model of the SacredGeo composition engine (compositions.py) and         *)
(* animation driver (animations.py).                                       *)
(*                                                                         *)
(* Each library function is a call that runs from its entry to a return    *)
(* or a raised error, one action per block of statements.  There is one    *)
(* specification per function; the variables of the other functions stay   *)
(* at their idle values:                                                   *)
(*   SpecCombine        combine_patterns                                   *)
(*   SpecLayered        create_layered_flower_of_life                      *)
(*   SpecMandala        create_mandala_from_polygons                       *)
(*   SpecConstellation  create_platonic_solid_constellation                *)
(*   SpecEvolution      animate_pattern_evolution                          *)
(*   SpecRotation       animate_3d_rotation                                *)
(*   SpecInputs         combine_patterns with animate_pattern_evolution    *)
(*   SpecShapes         create_cuboctahedron, create_merkaba, stars        *)
(*   SpecColors         linear_gradient, create_gradient_from_palette,     *)
(*                      map_value_to_color                                 *)
(*   SpecNotebook       process_positive_numbers,                          *)
(*                      simulate_process_with_continue (SpecNotebookFair   *)
(*                      with the fairness of the interpreter)              *)
(*   SpecAnimation      create_animation (Merkaba rotation)                *)
(*   SpecAnimate        both animate functions                             *)
(*   SpecCompositions   both composition functions with rotation arguments *)
(*                                                                         *)
(* Python's None is the empty tuple <<>> and a given optional value x is   *)
(* the one-element tuple <<x>>.  A dict is a function on the set of the    *)
(* keys it holds.                                                          *)
(***************************************************************************)
EXTENDS Integers, Sequences, FiniteSets, TLC

VARIABLES
    \* combine_patterns
    pattern1_data,      \* first argument (a mapping key -> list)
    pattern2_data,      \* second argument
    combined,           \* the returned mapping
    combined_lists,     \* the list object held under each key of the result
    cpc,                \* "idle" | "call" | "return"
    \* create_layered_flower_of_life
    lcenter,            \* center
    radii,              \* radii
    layers_per_radius,  \* layers_per_radius
    offsets,            \* offsets as passed (None or a list)
    rotations,          \* rotations as passed (None or a list)
    loffsets,           \* the local offsets after the None default
    lrotations,         \* the local rotations after the None default
    li,                 \* loop index i
    all_circles,        \* all_circles
    fol_calls,          \* the calls of create_flower_of_life made so far
    lresult,            \* the returned composition
    lerror,             \* the exception raised to the caller, "" if none
    lpc,                \* "idle" | "call" | "loop" | "return" | "raised"
    \* create_mandala_from_polygons
    mcenter,            \* center
    num_segments,       \* num_segments
    segment_elements,   \* segment_elements as passed (None or a list of dicts)
    base_radius,        \* base_radius
    melements,          \* the local segment_elements after the None default
    mi,                 \* outer loop index i
    mj,                 \* position in segment_elements of the inner loop
    all_polygons,       \* all_polygons
    mandala_circles,    \* all_circles of the mandala
    mcalls,             \* the generator calls made so far, with slot and element
    mresult,            \* the returned composition
    merror,             \* the exception raised to the caller, "" if none
    mpc,                \* "idle" | "call" | "loop" | "return" | "raised"
    \* create_platonic_solid_constellation
    solid_type,         \* solid_type
    num_solids,         \* num_solids
    arrangement_radius, \* arrangement_radius
    solid_radius,       \* solid_radius
    solid_rotation_offset,  \* solid_rotation_offset
    shapes_importable,  \* whether sacred_geometry.shapes.shapes can be imported
    create_solid_func,  \* the generator found by name (None before the lookup)
    ki,                 \* loop index i
    all_3d_shapes,      \* all_3d_shapes
    kresult,            \* None, or the returned composition
    kerror,             \* the exception raised to the caller, "" if none
    kpc,                \* "idle" | "call" | "loop" | "return" | "raised"
    \* animate_pattern_evolution
    static_params,      \* static_params
    animated_param_name,\* animated_param_name
    param_start_value,  \* param_start_value
    param_end_value,    \* param_end_value
    frames,             \* frames
    is_3d,              \* is_3d
    output_filename,    \* output_filename (None or a name)
    kwargs_in,          \* **plot_kwargs as passed
    fail_in,            \* which callback raises: "none" | "generator" | "plot"
    fail_at,            \* ... when it meets the value of this frame
    param_values,       \* param_values
    plot_kwargs,        \* plot_kwargs after the colour default
    ani,                \* None, or the FuncAnimation
    driver,             \* who runs the frames: "" | "save" | "show"
    writer_name,        \* None, or the writer passed to ani.save
    frame_num,          \* frame_num of the current (or last) update
    current_params,     \* current_params of that update
    pattern_data,       \* None, or what the generator returned in that update
    plot_arg,           \* None, or what the plot callback was given in it
    utrace,             \* the steps of that update so far
    artists,            \* what is drawn on the axes
    draws,              \* updates started
    gen_calls,          \* generator invocations
    plot_calls,         \* plot callback invocations
    saves,              \* ani.save invocations
    shows,              \* plt.show invocations
    printed,            \* messages printed
    eresult,            \* None, or the value returned to the caller
    eerror,             \* the exception in flight or raised, "" if none
    epc,                \* control point
    \* animate_3d_rotation
    rstatic_params,     \* static_params
    rframes,            \* frames
    routput_filename,   \* output_filename (None or a name)
    rkwargs,            \* **plot_kwargs
    rfail_in,           \* which callback raises: "none" | "generator" | "plot"
    rfail_at,           \* ... the plot callback on its call number rfail_at
    shape_data,         \* None, or what the shape generator returned
    initial_limits,     \* None, or initial_xlim, initial_ylim, initial_zlim
    rani,               \* None, or the FuncAnimation
    rdriver,            \* who runs the frames: "" | "save" | "show"
    rwriter_name,       \* None, or the writer passed to ani.save
    rframe_num,         \* frame_num of the last update
    view,               \* what the axes show: shape, kwargs, elev, azim, limits
    rdraws,             \* updates started
    rgen_calls,         \* shape generator invocations
    rplot_calls,        \* plot callback invocations
    rsaves,             \* ani.save invocations
    rshows,             \* plt.show invocations
    rprinted,           \* messages printed
    rresult,            \* None, or the value returned to the caller
    rerror,             \* the exception in flight or raised, "" if none
    rpc,                \* control point
    \* create_cuboctahedron, create_merkaba, create_pentagram, create_hexagram
    shape_fn,           \* the function called, "" if none
    scenter,            \* center
    sradius,            \* radius
    srotation,          \* rotation (create_merkaba), in quarter turns
    sresult,            \* None, or the returned solid
    spc,                \* "idle" | "call" | "return"
    \* linear_gradient, create_gradient_from_palette, map_value_to_color
    color_fn,           \* the function called, "" if none
    start_hex,          \* start_hex (None when not passed)
    finish_hex,         \* finish_hex
    gn,                 \* n
    palette,            \* palette (None or a list of hex colors)
    num_steps_between,  \* num_steps_between
    gvalue,             \* value
    min_val,            \* min_val
    max_val,            \* max_val
    colormap,           \* colormap: a name, a Colormap, a list or something else
    default_color_hex,  \* default_color_hex
    gprinted,           \* messages printed
    gresult,            \* None, or the value returned to the caller
    gerror,             \* the exception raised to the caller, "" if none
    gpc,                \* "idle" | "call" | "return" | "raised"
    \* process_positive_numbers, simulate_process_with_continue
    demo_fn,            \* the function called, "" if none
    numbers,            \* numbers
    num_pos,            \* how many numbers the for loop has taken
    result,             \* result
    max_attempts,       \* max_attempts
    attempt,            \* attempt
    successful_operations,\* successful_operations
    event,              \* event of the current iteration (None outside one)
    event_counts,       \* how often random.randint returned each value
    iterations,         \* loop bodies entered
    dprinted,           \* the kind of each message printed
    dresult,            \* None, or the value returned to the caller
    dpc,                \* control point
    \* create_animation (Merkaba rotation)
    current_figure,     \* the figure pyplot works on: "" | "fig" | "other"
    figtexts,           \* the texts placed on each figure
    ax_artists,         \* what the axes of fig show
    rotations_pi,       \* rotations, in units of pi
    mframe,             \* frame of the last update (None before the first)
    mrotation_pi,       \* rotation of the last update, in units of pi
    mtitle,             \* the title of the axes
    mdraws,             \* updates run
    aresult,            \* None, or the value returned to the caller
    apc                 \* "idle" | "call" | "frames" | "return"

varsCombine == <<pattern1_data, pattern2_data, combined, combined_lists, cpc>>

varsLayered ==
    <<lcenter, radii, layers_per_radius, offsets, rotations, loffsets,
      lrotations, li, all_circles, fol_calls, lresult, lerror, lpc>>

varsMandala ==
    <<mcenter, num_segments, segment_elements, base_radius, melements, mi, mj,
      all_polygons, mandala_circles, mcalls, mresult, merror, mpc>>

varsConstellation ==
    <<solid_type, num_solids, arrangement_radius, solid_radius,
      solid_rotation_offset, shapes_importable, create_solid_func, ki,
      all_3d_shapes, kresult, kerror, kpc>>

\* the arguments of animate_pattern_evolution and the behaviour of the
\* callbacks passed to it
otherArgsEvolution ==
    <<animated_param_name, param_start_value, param_end_value, frames, is_3d,
      output_filename, kwargs_in, fail_in, fail_at>>

argsEvolution == <<static_params, otherArgsEvolution>>

\* what one update(frame_num) works on
updEvolution ==
    <<frame_num, current_params, pattern_data, plot_arg, utrace, artists,
      draws, gen_calls, plot_calls>>

varsEvolution ==
    <<argsEvolution, updEvolution, param_values, plot_kwargs, ani, driver,
      writer_name, saves, shows, printed, eresult, eerror, epc>>

\* the arguments of animate_3d_rotation and the behaviour of the callbacks
argsRotation ==
    <<rstatic_params, rframes, routput_filename, rkwargs, rfail_in, rfail_at>>

varsRotation ==
    <<argsRotation, shape_data, initial_limits, rani, rdriver, rwriter_name,
      rframe_num, view, rdraws, rgen_calls, rplot_calls, rsaves, rshows,
      rprinted, rresult, rerror, rpc>>

varsShapes == <<shape_fn, scenter, sradius, srotation, sresult, spc>>

varsColors ==
    <<color_fn, start_hex, finish_hex, gn, palette, num_steps_between,
      gvalue, min_val, max_val, colormap, default_color_hex, gprinted,
      gresult, gerror, gpc>>

varsNotebook ==
    <<demo_fn, numbers, num_pos, result, max_attempts, attempt,
      successful_operations, event, event_counts, iterations, dprinted,
      dresult, dpc>>

varsAnimation ==
    <<current_figure, figtexts, ax_artists, rotations_pi, mframe,
      mrotation_pi, mtitle, mdraws, aresult, apc>>

vars ==
    <<varsCombine, varsLayered, varsMandala, varsConstellation, varsEvolution,
      varsRotation, varsShapes,
      varsColors,
      varsNotebook,
      varsAnimation>>

\* what a step of one function leaves alone
notCombine ==
    <<varsLayered, varsMandala, varsConstellation, varsEvolution, varsRotation,
      varsShapes,
      varsColors,
      varsNotebook,
      varsAnimation>>
notLayered ==
    <<varsCombine, varsMandala, varsConstellation, varsEvolution, varsRotation,
      varsShapes,
      varsColors,
      varsNotebook,
      varsAnimation>>
notMandala ==
    <<varsCombine, varsLayered, varsConstellation, varsEvolution, varsRotation,
      varsShapes,
      varsColors,
      varsNotebook,
      varsAnimation>>
notConstellation ==
    <<varsCombine, varsLayered, varsMandala, varsEvolution, varsRotation,
      varsShapes,
      varsColors,
      varsNotebook,
      varsAnimation>>
notEvolution ==
    <<varsCombine, varsLayered, varsMandala, varsConstellation, varsRotation,
      varsShapes,
      varsColors,
      varsNotebook,
      varsAnimation>>
notShapes ==
    <<varsCombine, varsLayered, varsMandala, varsConstellation, varsEvolution,
      varsRotation,
      varsColors,
      varsNotebook,
      varsAnimation>>
notRotation ==
    <<varsCombine, varsLayered, varsMandala, varsConstellation, varsEvolution,
      varsShapes,
      varsColors,
      varsNotebook,
      varsAnimation>>
notColors ==
    <<varsCombine,
      varsLayered,
      varsMandala,
      varsConstellation,
      varsEvolution,
      varsRotation,
      varsShapes,
      varsNotebook,
      varsAnimation>>
notNotebook ==
    <<varsCombine,
      varsLayered,
      varsMandala,
      varsConstellation,
      varsEvolution,
      varsRotation,
      varsShapes,
      varsColors,
      varsAnimation>>
notAnimation ==
    <<varsCombine,
      varsLayered,
      varsMandala,
      varsConstellation,
      varsEvolution,
      varsRotation,
      varsShapes,
      varsColors,
      varsNotebook>>

None == <<>>
Some(x) == <<x>>

(***************************************************************************)
(* Bounds                                                                  *)
(***************************************************************************)
MaxLen   == 1       \* elements in one list of an input composition

(***************************************************************************)
(* Compositions: Dict[str, List[Any]]                                      *)
(***************************************************************************)
KnownKeys == {"circles", "lines", "polygons", "3d_shapes"}

\* a category combine_patterns does not list ("Add other element types as
\* your Composition evolves")
OtherKeys == {"solids"}

\* geometric objects held in the lists (opaque to combine_patterns)
Elems == {"g1", "g2"}

Lists == UNION {[1..n -> Elems] : n \in 0..MaxLen}

\* the key sets of the input compositions: none, any single category, and
\* two pairs (two listed categories; a listed and an unlisted one)
KeySets ==
    {{}} \cup {{k} : k \in KnownKeys \cup OtherKeys}
         \cup {{"circles", "lines"}, {"polygons", "solids"}}

Composition == UNION {[D -> Lists] : D \in KeySets}

EmptyComposition == [k \in {} |-> <<>>]

\* dict.get(key, default)
Get(d, k, default) == IF k \in DOMAIN d THEN d[k] ELSE default

\* a variant that walks the first argument's keys only
combine_patterns_first_keys(p1, p2) ==
    [k \in KnownKeys |->
        IF k \in DOMAIN p1 THEN p1[k] \o Get(p2, k, <<>>) ELSE <<>>]

combine_patterns(p1, p2) ==
    [k \in KnownKeys |-> Get(p1, k, <<>>) \o Get(p2, k, <<>>)]

(***************************************************************************)
(* combine_patterns as a call                                              *)
(***************************************************************************)
IdleCombine ==
    /\ pattern1_data = EmptyComposition
    /\ pattern2_data = EmptyComposition
    /\ combined = EmptyComposition
    /\ combined_lists = EmptyComposition
    /\ cpc = "idle"

CallCombine ==
    /\ pattern1_data \in Composition
    /\ pattern2_data \in Composition
    /\ combined = EmptyComposition
    /\ combined_lists = EmptyComposition
    /\ cpc = "call"

\* the list objects a composition holds, named by their holder and key
ListsOf(holder, d) == {<<holder, k>> : k \in DOMAIN d}

\* left + right on lists evaluates to a new list object, whatever its operands
list_add(left, right, new) == new

Combine ==
    /\ cpc = "call"
    /\ combined' = combine_patterns(pattern1_data, pattern2_data)
    /\ combined_lists' =
          [k \in KnownKeys |->
              list_add(<<"pattern1_data", k>>, <<"pattern2_data", k>>,
                       <<"combined", k>>)]
    /\ cpc' = "return"
    /\ UNCHANGED <<pattern1_data, pattern2_data>>
    /\ UNCHANGED notCombine

\* C1: combine_patterns is associative: combining the returned (A+B) with any
\* third composition C equals combining A with (B+C), key for key and element
\* for element in the same order.
C1_Associative ==
    cpc = "return" =>
        \A c \in Composition :
            combine_patterns(combined, c)
                = combine_patterns(pattern1_data, combine_patterns(pattern2_data, c))

\* both inputs carry the same category, with different elements, and have
\* been combined, so the order of the concatenated lists is visible
C1_Witness ==
    /\ cpc = "return"
    /\ "circles" \in DOMAIN pattern1_data
    /\ "circles" \in DOMAIN pattern2_data
    /\ Len(combined["circles"]) = 2
    /\ combined["circles"][1] # combined["circles"][2]

\* C2: the empty composition is an identity of combine_patterns:
\* combine_patterns(A, empty) = A and combine_patterns(empty, A) = A, as
\* mappings, whatever keys A carries.
C2_Identity ==
    cpc = "return" =>
        /\ pattern2_data = EmptyComposition => combined = pattern1_data
        /\ pattern1_data = EmptyComposition => combined = pattern2_data

\* C3: combine_patterns merges key-wise and loses nothing: under every key of
\* either input the result holds the first input's list followed by the
\* second input's list.
C3_KeywiseNothingLost ==
    cpc = "return" =>
        \A k \in (DOMAIN pattern1_data) \cup (DOMAIN pattern2_data) :
            /\ k \in DOMAIN combined
            /\ combined[k] = Get(pattern1_data, k, <<>>) \o Get(pattern2_data, k, <<>>)

(***************************************************************************)
(* create_flower_of_life, create_circle, create_regular_polygon            *)
(* (sacred_geometry.core.core)                                             *)
(***************************************************************************)
\* the circles of one ring: ring 0 is the central circle, ring j > 0 holds
\* 6*j circles of the same radius around it
RingCircles(center, radius, j) ==
    [q \in 1..(IF j = 0 THEN 1 ELSE 6 * j) |->
        [center |-> center, radius |-> radius, ring |-> j, pos |-> q - 1]]

RECURSIVE RingsUpTo(_, _, _)
RingsUpTo(center, radius, j) ==
    IF j < 0 THEN <<>>
    ELSE RingsUpTo(center, radius, j - 1) \o RingCircles(center, radius, j)

create_flower_of_life(center, radius, layers) == RingsUpTo(center, radius, layers)

(***************************************************************************)
(* create_layered_flower_of_life                                           *)
(***************************************************************************)
MaxFol == 2         \* entries in one parameter list

SeqsUpTo(S, n) == UNION {[1..m -> S] : m \in 0..n}

IdleLayered ==
    /\ lcenter = <<0, 0>>
    /\ radii = <<>>
    /\ layers_per_radius = <<>>
    /\ offsets = None
    /\ rotations = None
    /\ loffsets = <<>>
    /\ lrotations = <<>>
    /\ li = 0
    /\ all_circles = <<>>
    /\ fol_calls = <<>>
    /\ lresult = EmptyComposition
    /\ lerror = ""
    /\ lpc = "idle"

CallLayered ==
    /\ lcenter \in {<<0, 0>>}
    /\ radii \in SeqsUpTo({1, 2}, MaxFol)
    /\ layers_per_radius \in SeqsUpTo({0, 1}, MaxFol)
    /\ offsets \in {None} \cup {Some(o) : o \in SeqsUpTo({<<0, 0>>, <<1, 2>>}, MaxFol)}
    /\ rotations \in {None} \cup {Some(r) : r \in SeqsUpTo({0, 1}, MaxFol)}
    /\ loffsets = <<>>
    /\ lrotations = <<>>
    /\ li = 0
    /\ all_circles = <<>>
    /\ fol_calls = <<>>
    /\ lresult = EmptyComposition
    /\ lerror = ""
    /\ lpc = "call"

\* [x] * n
Repeat(x, n) == [k \in 1..n |-> x]

\* a length check that forgets the rotations
LengthsMatchNoRotations(n, lpr, offs, rots) ==
    Len(lpr) = n /\ Len(offs) = n

\* the condition of the if at lines 61-63, negated
LengthsMatch(n, lpr, offs, rots) ==
    Len(lpr) = n /\ Len(offs) = n /\ Len(rots) = n

\* lines 53-64: the None defaults and the length check
LayeredEnter ==
    /\ lpc = "call"
    /\ LET num_fol_layers == Len(radii)
           offs == IF offsets = None THEN Repeat(<<0, 0>>, num_fol_layers)
                   ELSE offsets[1]
           rots == IF rotations = None THEN Repeat(0, num_fol_layers)
                   ELSE rotations[1]
       IN  /\ loffsets' = offs
           /\ lrotations' = rots
           /\ IF LengthsMatch(num_fol_layers, layers_per_radius, offs, rots)
              THEN lpc' = "loop" /\ lerror' = lerror
              ELSE lpc' = "raised" /\ lerror' = "ValueError"
    /\ UNCHANGED <<lcenter, radii, layers_per_radius, offsets, rotations, li,
                   all_circles, fol_calls, lresult>>
    /\ UNCHANGED notLayered

\* a call that turns the flower about the global center by quarter turns
flower_turned(center, radius, layers, fol_rotation) ==
    create_flower_of_life(
        IF fol_rotation % 2 = 1 THEN <<-center[2], center[1]>> ELSE center,
        radius, layers)

\* lines 69-79: the generator is called without fol_rotation
flower_of(center, radius, layers, fol_rotation) ==
    create_flower_of_life(center, radius, layers)

\* an extend that puts the new circles in front
extend_front(list, items) == items \o list

\* line 80: list.extend
extend(list, items) == list \o items

\* lines 66-80: one iteration of the loop.  An index past the end of a list
\* raises IndexError.
LayeredIterate ==
    /\ lpc = "loop"
    /\ li < Len(radii)
    /\ LET i == li + 1
       IN  IF i > Len(loffsets) \/ i > Len(layers_per_radius)
           THEN /\ lpc' = "raised"
                /\ lerror' = "IndexError"
                /\ UNCHANGED <<li, all_circles, fol_calls>>
           ELSE LET fol_center == <<lcenter[1] + loffsets[i][1],
                                    lcenter[2] + loffsets[i][2]>>
                    fol_radius == radii[i]
                    fol_growth_layers == layers_per_radius[i]
                    current_fol_circles ==
                        flower_of(fol_center, fol_radius, fol_growth_layers,
                                  lrotations[i])
                IN  /\ fol_calls' = Append(fol_calls,
                            [center |-> fol_center, radius |-> fol_radius,
                             layers |-> fol_growth_layers])
                    /\ all_circles' = extend(all_circles, current_fol_circles)
                    /\ li' = li + 1
                    /\ UNCHANGED <<lpc, lerror>>
    /\ UNCHANGED <<lcenter, radii, layers_per_radius, offsets, rotations,
                   loffsets, lrotations, lresult>>
    /\ UNCHANGED notLayered

\* line 82
LayeredReturn ==
    /\ lpc = "loop"
    /\ li = Len(radii)
    /\ lresult' = [circles |-> all_circles, lines |-> <<>>, polygons |-> <<>>]
    /\ lpc' = "return"
    /\ UNCHANGED <<lcenter, radii, layers_per_radius, offsets, rotations,
                   loffsets, lrotations, li, all_circles, fol_calls, lerror>>
    /\ UNCHANGED notLayered

\* C4: create_layered_flower_of_life fails fast on inconsistent inputs: when
\* the length of layers_per_radius, of offsets (if given) or of rotations (if
\* given) differs from len(radii), the call ends in an error with zero calls
\* of the flower-of-life generator and no circle produced; omitted offsets or
\* rotations never cause a mismatch.
C4_Mismatch ==
    \/ Len(layers_per_radius) # Len(radii)
    \/ offsets # None /\ Len(offsets[1]) # Len(radii)
    \/ rotations # None /\ Len(rotations[1]) # Len(radii)

C4_FailFast ==
    /\ (lpc # "idle" /\ C4_Mismatch) =>
            /\ lpc \in {"call", "raised"}
            /\ fol_calls = <<>>
            /\ all_circles = <<>>
            /\ lresult = EmptyComposition
            /\ lpc = "raised" => lerror = "ValueError"
    /\ lpc = "raised" => C4_Mismatch

\* the call was rejected although only the rotations have the wrong length
C4_Witness ==
    /\ lpc = "raised"
    /\ Len(radii) = 2
    /\ Len(layers_per_radius) = 2
    /\ offsets = None
    /\ rotations # None /\ Len(rotations[1]) = 1

(***************************************************************************)
(* Angles and lengths                                                      *)
(*                                                                         *)
(* Lengths are integers in units of 1/LenScale.  An angle argument is an   *)
(* integer number of 2*pi/FullTurn (np.pi/24 is 1).  Inside a call that    *)
(* divides the turn into n equal steps, every angle is a whole number of   *)
(* 2*pi/(n*FullTurn), so that 2*pi/n is exact: a turn is Turn(n) of these. *)
(***************************************************************************)
FullTurn == 48
LenScale == 30

Abs(x) == IF x < 0 THEN -x ELSE x

Turn(n) == Abs(n) * FullTurn

\* the point  o + r*(cos a, sin a), with a in units of 2*pi/turn; equal
\* records are equal points, and records with the same o are equal points
\* only if they are equal records
Polar(o, r, a, turn) ==
    [o |-> o,
     r |-> Abs(r),
     a |-> IF r = 0 THEN 0
           ELSE IF r < 0 THEN (a + turn \div 2) % turn
           ELSE a % turn]

\* create_circle's default num_points
CircleNumPoints == 8

\* create_circle(center, radius): num_points points on the circle, evenly
\* spaced by 2*pi/num_points
create_circle(center, radius, turn) ==
    [k \in 1..CircleNumPoints |->
        Polar(center, radius, (k - 1) * (turn \div CircleNumPoints), turn)]

\* create_regular_polygon(center, radius, sides, rotation): sides vertices on
\* the circumscribed circle, counter-clockwise from angle rotation, evenly
\* spaced by 2*pi/sides
create_regular_polygon(center, radius, sides, rotation, turn) ==
    [k \in 1..sides |->
        Polar(center, radius, rotation + (k - 1) * (turn \div sides), turn)]

(***************************************************************************)
(* create_mandala_from_polygons                                            *)
(***************************************************************************)
MaxSegments == 3    \* largest num_segments
MaxElements == 2    \* entries of segment_elements

\* element dicts a caller may pass: the two of the docstring, one with
\* every optional key left out, a square with its own rotation, one of a
\* type the function does not know, and one without 'type'
ElementDefs ==
    { [type |-> "polygon", sides |-> 3, radius |-> 15, offset_r |-> 30,
       offset_angle |-> 0, rotation |-> 0],
      [type |-> "circle", radius |-> 6, offset_r |-> 45, offset_angle |-> 2],
      [type |-> "polygon"],
      [type |-> "polygon", sides |-> 4, radius |-> 15, offset_r |-> 30,
       offset_angle |-> 1, rotation |-> 6],
      [type |-> "line", radius |-> 15, offset_r |-> 30],
      [radius |-> 15, offset_r |-> 30] }

\* lines 119-123 (0.5 * base_radius/3 is 5*base_radius/30, and so on)
DefaultSegmentElements(b) ==
    << [type |-> "polygon", sides |-> 6, radius |-> (5 * b) \div 30,
        offset_r |-> (10 * b) \div 30, offset_angle |-> 0, rotation |-> 4],
       [type |-> "polygon", sides |-> 3, radius |-> (3 * b) \div 30,
        offset_r |-> (18 * b) \div 30, offset_angle |-> 1, rotation |-> 0],
       [type |-> "circle", radius |-> (1 * b) \div 30,
        offset_r |-> (25 * b) \div 30, offset_angle |-> 0] >>

IdleMandala ==
    /\ mcenter = <<0, 0>>
    /\ num_segments = 0
    /\ segment_elements = None
    /\ base_radius = 0
    /\ melements = <<>>
    /\ mi = 0
    /\ mj = 0
    /\ all_polygons = <<>>
    /\ mandala_circles = <<>>
    /\ mcalls = <<>>
    /\ mresult = EmptyComposition
    /\ merror = ""
    /\ mpc = "idle"

CallMandala ==
    /\ mcenter \in {<<0, 0>>}
    /\ num_segments \in -1..MaxSegments
    /\ segment_elements \in
          {None} \cup {Some(e) : e \in SeqsUpTo(ElementDefs, MaxElements)}
    /\ base_radius \in {2 * LenScale, 3 * LenScale}
    /\ melements = <<>>
    /\ mi = 0
    /\ mj = 0
    /\ all_polygons = <<>>
    /\ mandala_circles = <<>>
    /\ mcalls = <<>>
    /\ mresult = EmptyComposition
    /\ merror = ""
    /\ mpc = "call"

\* a test that also takes an empty list for a missing one
UsesDefaultIfEmpty(elements) == elements = None \/ elements = Some(<<>>)

\* line 117: segment_elements is None
UsesDefault(elements) == elements = None

\* lines 114-125: the default elements and the angle step (a division by
\* num_segments)
MandalaEnter ==
    /\ mpc = "call"
    /\ melements' = IF UsesDefault(segment_elements)
                    THEN DefaultSegmentElements(base_radius)
                    ELSE segment_elements[1]
    /\ IF num_segments = 0
       THEN mpc' = "raised" /\ merror' = "ZeroDivisionError"
       ELSE mpc' = "loop" /\ merror' = merror
    /\ UNCHANGED <<mcenter, num_segments, segment_elements, base_radius, mi,
                   mj, all_polygons, mandala_circles, mcalls, mresult>>
    /\ UNCHANGED notMandala

\* a polygon that keeps its own rotation in every segment
RotationAlone(rotation, current_segment_angle) == rotation

\* line 144: "Rotate with segment"
RotationWithSegment(rotation, current_segment_angle) ==
    rotation + current_segment_angle

\* lines 130-157: one element of one segment
MandalaElement ==
    /\ mpc = "loop"
    /\ mi < num_segments
    /\ mj < Len(melements)
    /\ LET turn == Turn(num_segments)
           segment_angle_step == turn \div num_segments
           current_segment_angle == mi * segment_angle_step
           element_def == melements[mj + 1]
           el_type == Get(element_def, "type", None)
           el_radius == Get(element_def, "radius", 3)
           el_offset_r == Get(element_def, "offset_r", 0)
           el_offset_angle == Get(element_def, "offset_angle", 0) * num_segments
           element_center_angle == current_segment_angle + el_offset_angle
           element_center == Polar(mcenter, el_offset_r, element_center_angle, turn)
       IN  IF el_type = "polygon"
           THEN LET sides == Get(element_def, "sides", 3)
                    rotation ==
                        RotationWithSegment(
                            Get(element_def, "rotation", 0) * num_segments,
                            current_segment_angle)
                    poly == create_regular_polygon(
                                element_center, el_radius, sides, rotation, turn)
                IN  /\ all_polygons' = Append(all_polygons, poly)
                    /\ mcalls' = Append(mcalls,
                          [fn |-> "create_regular_polygon", slot |-> mi,
                           el |-> mj, center |-> element_center,
                           radius |-> el_radius, out |-> Len(all_polygons) + 1])
                    /\ UNCHANGED mandala_circles
           ELSE IF el_type = "circle"
           THEN LET circ == create_circle(element_center, el_radius, turn)
                IN  /\ mandala_circles' = Append(mandala_circles, circ)
                    /\ mcalls' = Append(mcalls,
                          [fn |-> "create_circle", slot |-> mi,
                           el |-> mj, center |-> element_center,
                           radius |-> el_radius, out |-> Len(mandala_circles) + 1])
                    /\ UNCHANGED all_polygons
           ELSE UNCHANGED <<all_polygons, mandala_circles, mcalls>>
    /\ mj' = mj + 1
    /\ UNCHANGED <<mcenter, num_segments, segment_elements, base_radius,
                   melements, mi, mresult, merror, mpc>>
    /\ UNCHANGED notMandala

\* lines 127-130: the inner loop is exhausted, on to the next segment
MandalaNextSegment ==
    /\ mpc = "loop"
    /\ mi < num_segments
    /\ mj = Len(melements)
    /\ mi' = mi + 1
    /\ mj' = 0
    /\ UNCHANGED <<mcenter, num_segments, segment_elements, base_radius,
                   melements, all_polygons, mandala_circles, mcalls, mresult,
                   merror, mpc>>
    /\ UNCHANGED notMandala

\* line 160
MandalaReturn ==
    /\ mpc = "loop"
    /\ mi >= num_segments
    /\ mresult' = [polygons |-> all_polygons, circles |-> mandala_circles,
                   lines |-> <<>>]
    /\ mpc' = "return"
    /\ UNCHANGED <<mcenter, num_segments, segment_elements, base_radius,
                   melements, mi, mj, all_polygons, mandala_circles, mcalls,
                   merror>>
    /\ UNCHANGED notMandala

\* the points generated by the k-th generator call of the mandala
C5_Points(k) ==
    IF mcalls[k].fn = "create_regular_polygon"
    THEN all_polygons[mcalls[k].out]
    ELSE mandala_circles[mcalls[k].out]

\* a point of an element, rotated by one slot angle about the mandala center
C5_Rotate(p) ==
    LET turn == Turn(num_segments)
        step == turn \div num_segments
    IN  Polar(Polar(p.o.o, p.o.r, p.o.a + step, turn), p.r, p.a + step, turn)

C5_RotatedSet(k) == {C5_Rotate(C5_Points(k)[n]) : n \in DOMAIN C5_Points(k)}

C5_Set(k) == {C5_Points(k)[n] : n \in DOMAIN C5_Points(k)}

\* call b generates in the next slot the element that call a generated
C5_NextSlot(a, b) ==
    /\ mcalls[a].el = mcalls[b].el
    /\ mcalls[b].slot = (mcalls[a].slot + 1) % num_segments

MaxSolids == 3      \* largest num_solids

\* the create_<name> generators of sacred_geometry.shapes.shapes that take
\* (center, radius)
ShapeGenerators ==
    {"tetrahedron", "cube", "octahedron", "dodecahedron", "icosahedron"}

\* create_<solid>(center, radius): the solid's vertices, faces and edges,
\* kept as the solid's name with the center and radius it was built for
create_solid(name, center, radius) ==
    [solid |-> name, center |-> center, radius |-> radius]

IdleConstellation ==
    /\ solid_type = ""
    /\ num_solids = 0
    /\ arrangement_radius = 0
    /\ solid_radius = 0
    /\ solid_rotation_offset = ""
    /\ shapes_importable = TRUE
    /\ create_solid_func = None
    /\ ki = 0
    /\ all_3d_shapes = <<>>
    /\ kresult = None
    /\ kerror = ""
    /\ kpc = "idle"

CallConstellation ==
    /\ solid_type \in {"tetrahedron", "cube", "icosahedron", "pyramid", "sphere", ""}
    /\ num_solids \in -1..MaxSolids
    /\ arrangement_radius \in {0, 5 * LenScale}
    /\ solid_radius \in {LenScale}
    /\ solid_rotation_offset \in {"pi/7", "0"}
    /\ shapes_importable \in BOOLEAN
    /\ create_solid_func = None
    /\ ki = 0
    /\ all_3d_shapes = <<>>
    /\ kresult = None
    /\ kerror = ""
    /\ kpc = "call"

\* lines 189-190: __import__ raises ImportError, getattr raises
\* AttributeError; otherwise the generator
Lookup(importable, name) ==
    IF ~importable THEN "ImportError"
    ELSE IF name \notin ShapeGenerators THEN "AttributeError"
    ELSE "create_" \o name

\* a lookup failure that is passed over: nothing is generated and the
\* empty composition is returned
ConstellationEnterSkipping ==
    /\ kpc = "call"
    /\ LET found == Lookup(shapes_importable, solid_type)
       IN  IF found \in {"ImportError", "AttributeError"}
           THEN /\ kpc' = "return"
                /\ kresult' = Some([3d_shapes |-> <<>>, circles |-> <<>>,
                                    lines |-> <<>>, polygons |-> <<>>])
                /\ UNCHANGED <<create_solid_func, kerror>>
           ELSE /\ create_solid_func' = Some(found)
                /\ kresult' = kresult
                /\ IF num_solids = 0
                   THEN kpc' = "raised" /\ kerror' = "ZeroDivisionError"
                   ELSE kpc' = "loop" /\ kerror' = kerror
    /\ UNCHANGED <<solid_type, num_solids, arrangement_radius, solid_radius,
                   solid_rotation_offset, shapes_importable, ki, all_3d_shapes>>
    /\ UNCHANGED notConstellation

\* lines 188-195: the lookup by name (both failures become ValueError) and
\* the angle step (a division by num_solids)
ConstellationEnter ==
    /\ kpc = "call"
    /\ LET found == Lookup(shapes_importable, solid_type)
       IN  IF found \in {"ImportError", "AttributeError"}
           THEN /\ kpc' = "raised"
                /\ kerror' = "ValueError"
                /\ UNCHANGED create_solid_func
           ELSE /\ create_solid_func' = Some(found)
                /\ IF num_solids = 0
                   THEN kpc' = "raised" /\ kerror' = "ZeroDivisionError"
                   ELSE kpc' = "loop" /\ kerror' = kerror
    /\ UNCHANGED <<solid_type, num_solids, arrangement_radius, solid_radius,
                   solid_rotation_offset, shapes_importable, ki, all_3d_shapes,
                   kresult>>
    /\ UNCHANGED notConstellation

\* an angle that starts one step late
AngleOfNext(i, angle_step) == (i + 1) * angle_step

\* line 198: constellation_angle
AngleOf(i, angle_step) == i * angle_step

\* lines 197-218: one solid
ConstellationIterate ==
    /\ kpc = "loop"
    /\ ki < num_solids
    /\ LET turn == Turn(num_solids)
           angle_step == turn \div num_solids
           constellation_angle == AngleOf(ki, angle_step)
           \* (R cos, R sin, 0.0): a point of the plane z = 0
           solid_center ==
               Polar(<<0, 0, 0>>, arrangement_radius, constellation_angle, turn)
           solid_data == create_solid(solid_type, solid_center, solid_radius)
       IN  all_3d_shapes' = Append(all_3d_shapes, solid_data)
    /\ ki' = ki + 1
    /\ UNCHANGED <<solid_type, num_solids, arrangement_radius, solid_radius,
                   solid_rotation_offset, shapes_importable, create_solid_func,
                   kresult, kerror, kpc>>
    /\ UNCHANGED notConstellation

\* line 220
ConstellationReturn ==
    /\ kpc = "loop"
    /\ ki >= num_solids
    /\ kresult' = Some([3d_shapes |-> all_3d_shapes, circles |-> <<>>,
                        lines |-> <<>>, polygons |-> <<>>])
    /\ kpc' = "return"
    /\ UNCHANGED <<solid_type, num_solids, arrangement_radius, solid_radius,
                   solid_rotation_offset, shapes_importable, create_solid_func,
                   ki, all_3d_shapes, kerror>>
    /\ UNCHANGED notConstellation

\* C6: create_platonic_solid_constellation rejects an unrecognised
\* solid_type: the call ends in the unsupported-type error (ValueError) raised
\* to the caller, no solid is generated and no composition, not even an empty
\* one, is returned.
C6_RejectsUnknownType ==
    (kpc # "idle" /\ solid_type \notin ShapeGenerators) =>
        /\ kpc \in {"call", "raised"}
        /\ kpc = "raised" => kerror = "ValueError"
        /\ all_3d_shapes = <<>>
        /\ kresult = None

\* 'pyramid' names no generator of an importable shapes module, and the
\* call has ended
C6_Witness ==
    /\ kpc = "raised"
    /\ solid_type = "pyramid"
    /\ shapes_importable
    /\ num_solids = 3

\* C13: composition size parameters are validated eagerly:
\* create_mandala_from_polygons called with num_segments <= 0 and
\* create_platonic_solid_constellation called with num_solids <= 0 or a
\* non-positive solid_radius or arrangement_radius end in an error before
\* any generator is invoked, and never return a composition, empty or
\* otherwise.
C13_EagerValidation ==
    /\ (mpc \notin {"idle", "call"} /\ num_segments <= 0) =>
          /\ mpc # "return"
          /\ mcalls = <<>>
    /\ (kpc \notin {"idle", "call"}
          /\ (num_solids <= 0 \/ solid_radius <= 0 \/ arrangement_radius <= 0)) =>
          /\ kpc # "return"
          /\ all_3d_shapes = <<>>

\* C14: create_mandala_from_polygons never silently drops an element: when
\* the call returns, every element spec of segment_elements has had exactly
\* one element generated for it in every segment; a spec with a missing or
\* unrecognised 'type' is never left out of the result without an error.
C14_NoElementDropped ==
    mpc = "return" =>
        \A i \in 0..(num_segments - 1) : \A j \in 0..(Len(melements) - 1) :
            Cardinality({k \in DOMAIN mcalls :
                            mcalls[k].slot = i /\ mcalls[k].el = j}) = 1

\* the offsets the layered call works with
C15_Offsets == IF offsets = None THEN [i \in DOMAIN radii |-> <<0, 0>>]
               ELSE offsets[1]

\* the i-th call the claim describes
C15_Call(i) ==
    [center |-> <<lcenter[1] + C15_Offsets[i][1], lcenter[2] + C15_Offsets[i][2]>>,
     radius |-> radii[i],
     layers |-> layers_per_radius[i]]

\* the circles of calls 1..n, one call after the other
RECURSIVE C15_Circles(_)
C15_Circles(n) ==
    IF n = 0 THEN <<>>
    ELSE C15_Circles(n - 1)
            \o create_flower_of_life(C15_Call(n).center, C15_Call(n).radius,
                                     C15_Call(n).layers)

\* C15: with consistent inputs create_layered_flower_of_life invokes the
\* flower-of-life generator exactly len(radii) times, the i-th call with
\* center = center + offsets[i], radius = radii[i] and layers =
\* layers_per_radius[i], and returns under 'circles' the calls' results
\* concatenated in index order, with 'lines' and 'polygons' empty.
C15_LayeredCalls ==
    /\ (lpc # "idle" /\ ~ C4_Mismatch) => lpc # "raised"
    /\ lpc = "return" =>
          /\ Len(fol_calls) = Len(radii)
          /\ \A i \in DOMAIN radii : fol_calls[i] = C15_Call(i)
          /\ lresult = [circles |-> C15_Circles(Len(radii)),
                        lines |-> <<>>, polygons |-> <<>>]

\* two flowers of different radius, layers and offset were laid over each
\* other
C15_Witness ==
    /\ lpc = "return"
    /\ radii = <<1, 2>>
    /\ layers_per_radius = <<1, 0>>
    /\ offsets = Some(<< <<0, 0>>, <<1, 2>> >>)
    /\ Len(lresult.circles) = 8

\* the center of the i-th solid: angle i*2*pi/n on the circle of radius
\* arrangement_radius in the plane z = 0
C16_Center(i) ==
    Polar(<<0, 0, 0>>, arrangement_radius, i * FullTurn, num_solids * FullTurn)

\* C16: for a recognised solid_type and num_solids = n >= 1,
\* create_platonic_solid_constellation returns exactly n shapes under
\* '3d_shapes' and nothing in the other categories; the i-th shape (i =
\* 0..n-1) is generated with radius solid_radius and its center at angle
\* i*2*pi/n on the circle of radius arrangement_radius in the plane z = 0:
\* the centers are equidistant from the origin and evenly spaced.
C16_Constellation ==
    /\ (kpc # "idle" /\ shapes_importable /\ solid_type \in ShapeGenerators
           /\ num_solids >= 1) => kpc # "raised"
    /\ (kpc = "return" /\ num_solids >= 1) =>
          /\ kresult = Some([3d_shapes |-> all_3d_shapes, circles |-> <<>>,
                             lines |-> <<>>, polygons |-> <<>>])
          /\ Len(all_3d_shapes) = num_solids
          /\ \A i \in 0..(num_solids - 1) :
                /\ all_3d_shapes[i + 1] =
                      create_solid(solid_type, C16_Center(i), solid_radius)
                /\ all_3d_shapes[i + 1].center.r = Abs(arrangement_radius)
                /\ all_3d_shapes[i + 1].center.o = <<0, 0, 0>>
          /\ arrangement_radius # 0 =>
                \A i \in 1..num_solids :
                    (all_3d_shapes[(i % num_solids) + 1].center.a
                        - all_3d_shapes[i].center.a) % Turn(num_solids)
                        = FullTurn % Turn(num_solids)

\* three cubes were placed a third of a turn apart
C16_Witness ==
    /\ kpc = "return"
    /\ solid_type = "cube"
    /\ num_solids = 3
    /\ arrangement_radius > 0
    /\ Len(all_3d_shapes) = 3
    /\ all_3d_shapes[3].center.a = 2 * FullTurn

(***************************************************************************)
(* Numbers of the animation driver: exact fractions <<numerator,           *)
(* denominator>> in lowest terms, denominator > 0                          *)
(***************************************************************************)
RECURSIVE GCD(_, _)
GCD(x, y) == IF y = 0 THEN x ELSE GCD(y, x % y)

Frac(n, d) ==
    LET g == GCD(Abs(n), Abs(d))
        sgn == IF d < 0 THEN -1 ELSE 1
    IN  <<sgn * (n \div g), sgn * (d \div g)>>

\* a spacing that divides the range by num, as without the endpoint
linspace_no_endpoint(start, stop, num) ==
    [k \in 1..num |-> Frac(start * num + (k - 1) * (stop - start), num)]

\* np.linspace(start, stop, num): num samples, endpoint included; a single
\* sample is start
linspace(start, stop, num) ==
    [k \in 1..num |->
        IF num = 1 THEN Frac(start, 1)
        ELSE Frac(start * (num - 1) + (k - 1) * (stop - start), num - 1)]

(***************************************************************************)
(* animate_pattern_evolution                                               *)
(*                                                                         *)
(* FuncAnimation calls update(frame_num) with frame numbers of             *)
(* range(frames), while ani.save or plt.show runs.                         *)
(***************************************************************************)
MaxFrames == 3      \* largest frames
MaxDraws  == 3      \* updates run in one call

EmptyDict == [k \in {} |-> <<>>]

IdleEvolution ==
    /\ static_params = EmptyDict
    /\ animated_param_name = ""
    /\ param_start_value = 0
    /\ param_end_value = 0
    /\ frames = 0
    /\ is_3d = FALSE
    /\ output_filename = None
    /\ kwargs_in = EmptyDict
    /\ fail_in = "none"
    /\ fail_at = 0
    /\ param_values = <<>>
    /\ plot_kwargs = EmptyDict
    /\ ani = None
    /\ driver = ""
    /\ writer_name = None
    /\ frame_num = 0
    /\ current_params = EmptyDict
    /\ pattern_data = None
    /\ plot_arg = None
    /\ utrace = <<>>
    /\ artists = {}
    /\ draws = 0
    /\ gen_calls = 0
    /\ plot_calls = 0
    /\ saves = 0
    /\ shows = 0
    /\ printed = <<>>
    /\ eresult = None
    /\ eerror = ""
    /\ epc = "idle"

CallEvolution ==
    /\ static_params \in
          { [radius |-> Frac(1, 1)],
            [radius |-> Frac(1, 1), layers |-> Frac(9, 1)] }
    /\ animated_param_name = "layers"
    /\ \E range \in {<<1, 1>>, <<1, 3>>, <<4, 1>>} :
          param_start_value = range[1] /\ param_end_value = range[2]
    /\ frames \in 1..MaxFrames
    /\ is_3d \in BOOLEAN
    /\ output_filename \in
          {None, Some(""), Some("evolution.gif"), Some("evolution.mp4")}
    /\ kwargs_in \in {EmptyDict, [color_scheme |-> "rainbow"]}
    /\ fail_in \in {"none", "generator", "plot"}
    /\ fail_at \in 0..(frames - 1)
    /\ fail_in = "none" => fail_at = 0
    /\ param_values = <<>>
    /\ plot_kwargs = EmptyDict
    /\ ani = None
    /\ driver = ""
    /\ writer_name = None
    /\ frame_num = 0
    /\ current_params = EmptyDict
    /\ pattern_data = None
    /\ plot_arg = None
    /\ utrace = <<>>
    /\ artists = {}
    /\ draws = 0
    /\ gen_calls = 0
    /\ plot_calls = 0
    /\ saves = 0
    /\ shows = 0
    /\ printed = <<>>
    /\ eresult = None
    /\ eerror = ""
    /\ epc = "call"

\* d[name] = value on a dict
DictSet(d, name, value) ==
    [k \in (DOMAIN d) \cup {name} |-> IF k = name THEN value ELSE d[k]]

\* lines 117-126 and 191: the figure, the parameter values, the colour
\* default and the FuncAnimation
EvolutionEnter ==
    /\ epc = "call"
    /\ param_values' = linspace(param_start_value, param_end_value, frames)
    /\ plot_kwargs' =
          IF "color" \notin DOMAIN kwargs_in /\ "color_scheme" \notin DOMAIN kwargs_in
          THEN IF is_3d THEN DictSet(kwargs_in, "facecolors", "#e6e6fa")
               ELSE DictSet(kwargs_in, "color", "#e6e6fa")
          ELSE kwargs_in
    /\ ani' = Some([func |-> "update", frames |-> frames])
    /\ epc' = "created"
    /\ UNCHANGED <<argsEvolution, updEvolution, driver, writer_name, saves,
                   shows, printed, eresult, eerror>>
    /\ UNCHANGED notEvolution

\* str.endswith
EndsWith(str, suffix) ==
    \E prefix \in {"evolution", "rotation"} : str = prefix \o suffix

\* "if output_filename:" holds of a name that is not empty
Given(filename) == filename # None /\ filename[1] # ""

\* a choice of writer that does not look at the name
WriterNamePillow(filename) == "pillow"

\* line 196 and line 305: writer_name
WriterName(filename) ==
    IF EndsWith(filename, ".gif") THEN "pillow" ELSE "ffmpeg"

\* lines 193-197: a file name is given, ani.save is entered
EvolutionSave ==
    /\ epc = "created"
    /\ Given(output_filename)
    /\ writer_name' = Some(WriterName(output_filename[1]))
    /\ saves' = saves + 1
    /\ driver' = "save"
    /\ epc' = "rendering"
    /\ UNCHANGED <<argsEvolution, updEvolution, param_values, plot_kwargs, ani,
                   shows, printed, eresult, eerror>>
    /\ UNCHANGED notEvolution

\* lines 210-211: no file name, plt.show is entered
EvolutionShow ==
    /\ epc = "created"
    /\ ~ Given(output_filename)
    /\ shows' = shows + 1
    /\ driver' = "show"
    /\ epc' = "rendering"
    /\ UNCHANGED <<argsEvolution, updEvolution, param_values, plot_kwargs, ani,
                   writer_name, saves, printed, eresult, eerror>>
    /\ UNCHANGED notEvolution

\* a merge in which an entry of static_params wins over the animated value
MergeKeepsStatic(static, name, value) ==
    IF name \in DOMAIN static THEN static ELSE DictSet(static, name, value)

\* lines 156-157: static_params.copy(), then the animated entry
MergeParams(static, name, value) == DictSet(static, name, value)

\* an update that assigns into the caller's dict itself
StaticAssignedInPlace(static, name, value) == DictSet(static, name, value)

\* lines 156-157: the caller's static_params after the assignment, which is
\* made to the copy
StaticAfterMerge(static, name, value) == static

\* an update that draws over the previous frame
ax_keep(drawn) == drawn

\* line 130: ax.clear()
ax_clear(drawn) == {}

\* whether a callback given these parameters raises
Raises(who, params) ==
    /\ fail_in = who
    /\ params[animated_param_name] = param_values[fail_at + 1]

\* lines 129-157: update(k) starts: the axes are cleared and restyled and
\* the frame's parameters are put together
UpdateBegin(k) ==
    /\ epc = "rendering"
    /\ draws < MaxDraws
    /\ frame_num' = k
    /\ current_params' =
          MergeParams(static_params, animated_param_name, param_values[k + 1])
    /\ pattern_data' = None
    /\ plot_arg' = None
    /\ utrace' = <<"merge">>
    /\ artists' = ax_clear(artists)
    /\ static_params' =
          StaticAfterMerge(static_params, animated_param_name, param_values[k + 1])
    /\ draws' = draws + 1
    /\ epc' = "generate"
    /\ UNCHANGED <<otherArgsEvolution, gen_calls, plot_calls, param_values,
                   plot_kwargs, ani, driver, writer_name, saves, shows, printed,
                   eresult, eerror>>
    /\ UNCHANGED notEvolution

\* where an exception leaving update() lands
Unwind == IF driver = "save" THEN "save_raised" ELSE "show_raised"

\* line 159: the generator is called
UpdateGenerate ==
    /\ epc = "generate"
    /\ gen_calls' = gen_calls + 1
    /\ IF Raises("generator", current_params)
       THEN /\ utrace' = utrace \o <<"generate", "raise">>
            /\ eerror' = "GeneratorError"
            /\ epc' = Unwind
            /\ UNCHANGED pattern_data
       ELSE /\ utrace' = Append(utrace, "generate")
            /\ pattern_data' =
                  Some([params |-> current_params, call |-> gen_calls + 1])
            /\ epc' = "plot"
            /\ UNCHANGED eerror
    /\ UNCHANGED <<argsEvolution, frame_num, current_params, plot_arg, draws,
                   artists,
                   plot_calls, param_values, plot_kwargs, ani, driver,
                   writer_name, saves, shows, printed, eresult>>
    /\ UNCHANGED notEvolution

\* lines 163-189: the plot callback is called with the pattern, the axes
\* and the keyword arguments; the limits are set and the artists returned
UpdatePlot ==
    /\ epc = "plot"
    /\ plot_calls' = plot_calls + 1
    /\ plot_arg' = Some([data |-> pattern_data[1], kwargs |-> plot_kwargs])
    /\ IF Raises("plot", pattern_data[1].params)
       THEN /\ utrace' = utrace \o <<"plot", "raise">>
            /\ eerror' = "PlotError"
            /\ epc' = Unwind
            /\ UNCHANGED artists
       ELSE /\ utrace' = Append(utrace, "plot")
            /\ artists' = artists \cup
                  {[drawn |-> pattern_data[1].params, kwargs |-> plot_kwargs]}
            /\ epc' = "rendering"
            /\ UNCHANGED eerror
    /\ UNCHANGED <<argsEvolution, frame_num, current_params, pattern_data,
                   draws, gen_calls, param_values, plot_kwargs, ani, driver,
                   writer_name, saves, shows, printed, eresult>>
    /\ UNCHANGED notEvolution

\* ani.save itself fails (the writer is not installed, the file cannot be
\* written)
EvolutionSaveFails ==
    /\ epc = "rendering"
    /\ driver = "save"
    /\ eerror' = "WriterError"
    /\ epc' = "save_raised"
    /\ UNCHANGED <<argsEvolution, updEvolution, param_values, plot_kwargs, ani,
                   driver, writer_name, saves, shows, printed, eresult>>
    /\ UNCHANGED notEvolution

\* line 198: ani.save has returned
EvolutionSaved ==
    /\ epc = "rendering"
    /\ driver = "save"
    /\ printed' = Append(printed, "Animation saved to")
    /\ epc' = "after"
    /\ UNCHANGED <<argsEvolution, updEvolution, param_values, plot_kwargs, ani,
                   driver, writer_name, saves, shows, eresult, eerror>>
    /\ UNCHANGED notEvolution

\* lines 199-202: except Exception around ani.save
EvolutionSaveExcept ==
    /\ epc = "save_raised"
    /\ printed' = printed \o <<"Error saving animation", "For MP4", "For GIF">>
    /\ eerror' = ""
    /\ epc' = "after"
    /\ UNCHANGED <<argsEvolution, updEvolution, param_values, plot_kwargs, ani,
                   driver, writer_name, saves, shows, eresult>>
    /\ UNCHANGED notEvolution

\* an exception leaves update() inside plt.show and plt.show lets it
\* through: nothing between it and the caller catches it
EvolutionShowRaises ==
    /\ epc = "show_raised"
    /\ epc' = "raised"
    /\ UNCHANGED <<argsEvolution, updEvolution, param_values, plot_kwargs, ani,
                   driver, writer_name, saves, shows, printed, eresult, eerror>>
    /\ UNCHANGED notEvolution

\* ... or the event loop of the GUI backend reports it and goes on
EvolutionShowReports ==
    /\ epc = "show_raised"
    /\ printed' = Append(printed, "Traceback")
    /\ eerror' = ""
    /\ epc' = "rendering"
    /\ UNCHANGED <<argsEvolution, updEvolution, param_values, plot_kwargs, ani,
                   driver, writer_name, saves, shows, eresult>>
    /\ UNCHANGED notEvolution

\* plt.show returns: the window is closed
EvolutionShown ==
    /\ epc = "rendering"
    /\ driver = "show"
    /\ epc' = "after"
    /\ UNCHANGED <<argsEvolution, updEvolution, param_values, plot_kwargs, ani,
                   driver, writer_name, saves, shows, printed, eresult, eerror>>
    /\ UNCHANGED notEvolution

\* line 213
EvolutionReturn ==
    /\ epc = "after"
    /\ eresult' = ani
    /\ epc' = "return"
    /\ UNCHANGED <<argsEvolution, updEvolution, param_values, plot_kwargs, ani,
                   driver, writer_name, saves, shows, printed, eerror>>
    /\ UNCHANGED notEvolution

\* the unreduced value start + k*(end - start)/(frames - 1) of frame k
C7_Value(k) ==
    IF frames = 1 THEN <<param_start_value, 1>>
    ELSE <<param_start_value * (frames - 1)
             + k * (param_end_value - param_start_value), frames - 1>>

\* two fractions are the same number
C7_Same(v, w) == v[1] * w[2] = w[1] * v[2]

\* C7: animate_pattern_evolution produces exactly `frames` parameter values;
\* frame k uses start + k*(end-start)/(frames-1) when frames >= 2 and start
\* when frames = 1: the first frame uses param_start_value, the last (of two
\* or more) param_end_value, and when start = end every frame uses that same
\* value.
C7_FrameValues ==
    epc \notin {"idle", "call"} =>
        /\ Len(param_values) = frames
        /\ \A k \in 0..(frames - 1) : C7_Same(param_values[k + 1], C7_Value(k))
        /\ C7_Same(param_values[1], <<param_start_value, 1>>)
        /\ frames >= 2 => C7_Same(param_values[frames], <<param_end_value, 1>>)
        /\ param_start_value = param_end_value =>
              \A k \in 1..frames : param_values[k] = param_values[1]
        /\ utrace # <<>> =>
              C7_Same(current_params[animated_param_name], C7_Value(frame_num))
        /\ pattern_data # None =>
              C7_Same(pattern_data[1].params[animated_param_name],
                      C7_Value(frame_num))

\* the middle frame of three, between 1 and 3, was generated with 2
C7_Witness ==
    /\ frames = 3
    /\ param_start_value = 1
    /\ param_end_value = 3
    /\ frame_num = 1
    /\ pattern_data # None
    /\ pattern_data[1].params[animated_param_name] = <<2, 1>>

\* the parameters of the current frame, as the claim describes them
C8_Merged ==
    [p \in (DOMAIN static_params) \cup {animated_param_name} |->
        IF p = animated_param_name THEN param_values[frame_num + 1]
        ELSE static_params[p]]

\* C8: within every update the steps occur in this order, once each: the
\* frame's value is merged into a copy of the static parameters under
\* animated_param_name (overriding a static entry of that name), the
\* generator is invoked with the merged parameters, and only then the plot
\* callback is invoked, with exactly the object the generator returned for
\* this frame.
C8_UpdateOrder ==
    /\ utrace \in { <<>>, <<"merge">>,
                    <<"merge", "generate">>,
                    <<"merge", "generate", "raise">>,
                    <<"merge", "generate", "plot">>,
                    <<"merge", "generate", "plot", "raise">> }
    /\ utrace # <<>> => current_params = C8_Merged
    /\ gen_calls = IF epc = "generate" THEN draws - 1 ELSE draws
    /\ pattern_data # None =>
          /\ Len(utrace) >= 2
          /\ pattern_data[1].params = C8_Merged
          /\ pattern_data[1].call = gen_calls
    /\ plot_arg # None =>
          /\ Len(utrace) >= 3 /\ utrace[3] = "plot"
          /\ pattern_data # None
          /\ plot_arg[1].data = pattern_data[1]
    /\ (epc \in {"rendering", "after", "return"} /\ utrace # <<>>
          /\ "Traceback" \notin {printed[n] : n \in DOMAIN printed}) =>
          \/ utrace = <<"merge", "generate", "plot">>
          \/ utrace[Len(utrace)] = "raise"

\* a finished update of frame 1 whose static parameters held an entry under
\* the animated name
C8_Witness ==
    /\ epc = "rendering"
    /\ animated_param_name \in DOMAIN static_params
    /\ frame_num = 1
    /\ utrace = <<"merge", "generate", "plot">>
    /\ plot_arg # None
    /\ param_start_value # param_end_value

\* the parameters and keyword arguments of frame k, from the call's
\* arguments alone
C11_Params(k) ==
    [p \in (DOMAIN static_params) \cup {animated_param_name} |->
        IF p = animated_param_name
        THEN linspace(param_start_value, param_end_value, frames)[k + 1]
        ELSE static_params[p]]

C11_Kwargs ==
    IF DOMAIN kwargs_in \cap {"color", "color_scheme"} # {} THEN kwargs_in
    ELSE [q \in (DOMAIN kwargs_in) \cup {IF is_3d THEN "facecolors" ELSE "color"}
             |-> IF q \in DOMAIN kwargs_in THEN kwargs_in[q] ELSE "#e6e6fa"]

\* C11: frames of animate_pattern_evolution are independent: the parameters
\* passed to the generator and the content drawn by update(k) depend only on
\* k and the call's arguments, not on the frames rendered before: whatever
\* the history, the generator of frame k is given the same parameters and a
\* finished update(k) leaves exactly the drawing of frame k on the axes.
C11_FramesIndependent ==
    /\ epc = "generate" => current_params = C11_Params(frame_num)
    /\ pattern_data # None => pattern_data[1].params = C11_Params(frame_num)
    /\ plot_arg # None => plot_arg[1].kwargs = C11_Kwargs
    /\ utrace = <<"merge", "generate", "plot">> =>
          artists = {[drawn |-> C11_Params(frame_num), kwargs |-> C11_Kwargs]}

\* frame 0 of three has been drawn as the third update, after other frames
C11_Witness ==
    /\ frames = 3
    /\ param_start_value # param_end_value
    /\ draws = 3
    /\ frame_num = 0
    /\ utrace = <<"merge", "generate", "plot">>
    /\ artists # {}

\* one step leaves the caller's objects as they were
C12_Step ==
    /\ static_params' = static_params
    /\ pattern1_data' = pattern1_data
    /\ pattern2_data' = pattern2_data
    /\ cpc' = "return" =>
          \A k \in DOMAIN combined_lists' :
              combined_lists'[k] \notin
                  ListsOf("pattern1_data", pattern1_data')
                      \cup ListsOf("pattern2_data", pattern2_data')

\* C12: inputs are never mutated in place: no frame of
\* animate_pattern_evolution changes the caller's static_params (it does not
\* gain or change the animated parameter), and combine_patterns(A, B) leaves
\* A and B and the lists they hold unchanged, the result holding newly built
\* lists.
C12_InputsNotMutated == [][C12_Step]_vars

\* two frames were rendered from static parameters without the animated
\* name, and two compositions sharing a non-empty category were combined
C12_Witness ==
    /\ draws >= 2
    /\ utrace = <<"merge", "generate", "plot">>
    /\ animated_param_name \notin DOMAIN static_params
    /\ animated_param_name \in DOMAIN current_params
    /\ cpc = "return"
    /\ "polygons" \in (DOMAIN pattern1_data) \cap (DOMAIN pattern2_data)
    /\ Len(combined["polygons"]) = 2

(***************************************************************************)
(* animate_3d_rotation                                                     *)
(***************************************************************************)
\* the elevation of a new 3D axes (matplotlib's default view)
DefaultView == [elev |-> 30, azim |-> <<-60, 1>>]

IdleRotation ==
    /\ rstatic_params = EmptyDict
    /\ rframes = 0
    /\ routput_filename = None
    /\ rkwargs = EmptyDict
    /\ rfail_in = "none"
    /\ rfail_at = 0
    /\ shape_data = None
    /\ initial_limits = None
    /\ rani = None
    /\ rdriver = ""
    /\ rwriter_name = None
    /\ rframe_num = 0
    /\ view = None
    /\ rdraws = 0
    /\ rgen_calls = 0
    /\ rplot_calls = 0
    /\ rsaves = 0
    /\ rshows = 0
    /\ rprinted = <<>>
    /\ rresult = None
    /\ rerror = ""
    /\ rpc = "idle"

CallRotation ==
    /\ rstatic_params \in
          { [radius |-> Frac(1, 1)],
            [radius |-> Frac(1, 1), rotation |-> Frac(1, 4)] }
    /\ rframes \in 1..MaxFrames
    /\ routput_filename \in
          {None, Some(""), Some("rotation.gif"), Some("rotation.mp4")}
    /\ rkwargs \in {[alpha |-> "0.7"]}
    /\ rfail_in \in {"none", "generator", "plot"}
    /\ rfail_at \in 1..(MaxDraws + 1)
    /\ rfail_in # "plot" => rfail_at = 1
    /\ shape_data = None
    /\ initial_limits = None
    /\ rani = None
    /\ rdriver = ""
    /\ rwriter_name = None
    /\ rframe_num = 0
    /\ view = None
    /\ rdraws = 0
    /\ rgen_calls = 0
    /\ rplot_calls = 0
    /\ rsaves = 0
    /\ rshows = 0
    /\ rprinted = <<>>
    /\ rresult = None
    /\ rerror = ""
    /\ rpc = "call"

\* the axis limits matplotlib chooses for a plotted shape
LimitsOf(shape) == [fits |-> shape]

\* lines 248-251: the figure, and the shape generated once
RotationGenerate ==
    /\ rpc = "call"
    /\ rgen_calls' = rgen_calls + 1
    /\ IF rfail_in = "generator"
       THEN /\ rerror' = "GeneratorError"
            /\ rpc' = "raised"
            /\ UNCHANGED shape_data
       ELSE /\ shape_data' = Some([params |-> rstatic_params,
                                   call |-> rgen_calls + 1])
            /\ rpc' = "generated"
            /\ UNCHANGED rerror
    /\ UNCHANGED <<argsRotation, initial_limits, rani, rdriver, rwriter_name,
                   rframe_num, view, rdraws, rplot_calls, rsaves, rshows,
                   rprinted, rresult>>
    /\ UNCHANGED notRotation

\* lines 254-261 and 301: the initial plot, the limits it leaves, and the
\* FuncAnimation
RotationFirstPlot ==
    /\ rpc = "generated"
    /\ rplot_calls' = rplot_calls + 1
    /\ IF rfail_in = "plot" /\ rfail_at = rplot_calls + 1
       THEN /\ rerror' = "PlotError"
            /\ rpc' = "raised"
            /\ UNCHANGED <<view, initial_limits, rani>>
       ELSE /\ view' = Some([shape |-> shape_data[1], kwargs |-> rkwargs,
                             elev |-> DefaultView.elev, azim |-> DefaultView.azim,
                             limits |-> LimitsOf(shape_data[1])])
            /\ initial_limits' = Some(LimitsOf(shape_data[1]))
            /\ rani' = Some([func |-> "update", frames |-> rframes])
            /\ rpc' = "created"
            /\ UNCHANGED rerror
    /\ UNCHANGED <<argsRotation, shape_data, rdriver, rwriter_name, rframe_num,
                   rdraws, rgen_calls, rsaves, rshows, rprinted, rresult>>
    /\ UNCHANGED notRotation

\* lines 303-306: a file name is given, ani.save is entered
RotationSave ==
    /\ rpc = "created"
    /\ Given(routput_filename)
    /\ rwriter_name' = Some(WriterName(routput_filename[1]))
    /\ rsaves' = rsaves + 1
    /\ rdriver' = "save"
    /\ rpc' = "rendering"
    /\ UNCHANGED <<argsRotation, shape_data, initial_limits, rani, rframe_num,
                   view, rdraws, rgen_calls, rplot_calls, rshows, rprinted,
                   rresult, rerror>>
    /\ UNCHANGED notRotation

\* lines 310-311: no file name, plt.show is entered
RotationShow ==
    /\ rpc = "created"
    /\ ~ Given(routput_filename)
    /\ rshows' = rshows + 1
    /\ rdriver' = "show"
    /\ rpc' = "rendering"
    /\ UNCHANGED <<argsRotation, shape_data, initial_limits, rani, rwriter_name,
                   rframe_num, view, rdraws, rgen_calls, rplot_calls, rsaves,
                   rprinted, rresult, rerror>>
    /\ UNCHANGED notRotation

\* an angle counted from the end of the frame
azim_angle_from_one(k, n) == Frac((k + 1) * 360, n)

\* line 290: azim_angle = (frame_num / frames) * 360
azim_angle(k, n) == Frac(k * 360, n)

\* an update that builds the shape anew for every frame
RotationUpdateRegenerating(k) ==
    /\ rpc = "rendering"
    /\ rdraws < MaxDraws
    /\ rdraws' = rdraws + 1
    /\ rframe_num' = k
    /\ rplot_calls' = rplot_calls + 1
    /\ rgen_calls' = rgen_calls + 1
    /\ shape_data' = Some([params |-> rstatic_params, call |-> rgen_calls + 1])
    /\ view' = Some([shape |-> shape_data'[1], kwargs |-> rkwargs,
                     elev |-> DefaultView.elev,
                     azim |-> azim_angle(k, rframes),
                     limits |-> initial_limits[1]])
    /\ UNCHANGED <<rerror, rpc>>
    /\ UNCHANGED <<argsRotation, initial_limits, rani, rdriver,
                   rwriter_name, rsaves, rshows, rprinted, rresult>>
    /\ UNCHANGED notRotation

\* lines 264-299: update(k): the axes are cleared and restyled, the same
\* shape is plotted again, the azimuth is set and the limits are restored
RotationUpdate(k) ==
    /\ rpc = "rendering"
    /\ rdraws < MaxDraws
    /\ rdraws' = rdraws + 1
    /\ rframe_num' = k
    /\ rplot_calls' = rplot_calls + 1
    /\ IF rfail_in = "plot" /\ rfail_at = rplot_calls + 1
       THEN /\ rerror' = "PlotError"
            /\ rpc' = IF rdriver = "save" THEN "save_raised" ELSE "show_raised"
            /\ view' = None
       ELSE /\ view' = Some([shape |-> shape_data[1], kwargs |-> rkwargs,
                             elev |-> DefaultView.elev,
                             azim |-> azim_angle(k, rframes),
                             limits |-> initial_limits[1]])
            /\ UNCHANGED <<rerror, rpc>>
    /\ UNCHANGED <<argsRotation, shape_data, initial_limits, rani, rdriver,
                   rwriter_name, rgen_calls, rsaves, rshows, rprinted, rresult>>
    /\ UNCHANGED notRotation

\* ani.save itself fails
RotationSaveFails ==
    /\ rpc = "rendering"
    /\ rdriver = "save"
    /\ rerror' = "WriterError"
    /\ rpc' = "save_raised"
    /\ UNCHANGED <<argsRotation, shape_data, initial_limits, rani, rdriver,
                   rwriter_name, rframe_num, view, rdraws, rgen_calls,
                   rplot_calls, rsaves, rshows, rprinted, rresult>>
    /\ UNCHANGED notRotation

\* line 307: ani.save has returned
RotationSaved ==
    /\ rpc = "rendering"
    /\ rdriver = "save"
    /\ rprinted' = Append(rprinted, "Animation saved to")
    /\ rpc' = "after"
    /\ UNCHANGED <<argsRotation, shape_data, initial_limits, rani, rdriver,
                   rwriter_name, rframe_num, view, rdraws, rgen_calls,
                   rplot_calls, rsaves, rshows, rresult, rerror>>
    /\ UNCHANGED notRotation

\* lines 308-309: except Exception around ani.save
RotationSaveExcept ==
    /\ rpc = "save_raised"
    /\ rprinted' = Append(rprinted, "Error saving animation")
    /\ rerror' = ""
    /\ rpc' = "after"
    /\ UNCHANGED <<argsRotation, shape_data, initial_limits, rani, rdriver,
                   rwriter_name, rframe_num, view, rdraws, rgen_calls,
                   rplot_calls, rsaves, rshows, rresult>>
    /\ UNCHANGED notRotation

\* an exception leaves update() inside plt.show and plt.show lets it through
RotationShowRaises ==
    /\ rpc = "show_raised"
    /\ rpc' = "raised"
    /\ UNCHANGED <<argsRotation, shape_data, initial_limits, rani, rdriver,
                   rwriter_name, rframe_num, view, rdraws, rgen_calls,
                   rplot_calls, rsaves, rshows, rprinted, rresult, rerror>>
    /\ UNCHANGED notRotation

\* ... or the event loop of the GUI backend reports it and goes on
RotationShowReports ==
    /\ rpc = "show_raised"
    /\ rprinted' = Append(rprinted, "Traceback")
    /\ rerror' = ""
    /\ rpc' = "rendering"
    /\ UNCHANGED <<argsRotation, shape_data, initial_limits, rani, rdriver,
                   rwriter_name, rframe_num, view, rdraws, rgen_calls,
                   rplot_calls, rsaves, rshows, rresult>>
    /\ UNCHANGED notRotation

\* plt.show returns: the window is closed
RotationShown ==
    /\ rpc = "rendering"
    /\ rdriver = "show"
    /\ rpc' = "after"
    /\ UNCHANGED <<argsRotation, shape_data, initial_limits, rani, rdriver,
                   rwriter_name, rframe_num, view, rdraws, rgen_calls,
                   rplot_calls, rsaves, rshows, rprinted, rresult, rerror>>
    /\ UNCHANGED notRotation

\* line 313
RotationReturn ==
    /\ rpc = "after"
    /\ rresult' = rani
    /\ rpc' = "return"
    /\ UNCHANGED <<argsRotation, shape_data, initial_limits, rani, rdriver,
                   rwriter_name, rframe_num, view, rdraws, rgen_calls,
                   rplot_calls, rsaves, rshows, rprinted, rerror>>
    /\ UNCHANGED notRotation

\* C9: animate_3d_rotation never re-generates geometry: the shape generator
\* is invoked exactly once, before the first frame, however many frames are
\* rendered; every frame plots that same shape object; and between frames
\* only the view azimuth varies (the plotted shape, its keyword arguments,
\* the elevation and the axis limits are those of the initial plot).
C9_GeneratedOnce ==
    /\ rgen_calls <= 1
    /\ rpc \notin {"idle", "call"} => rgen_calls = 1
    /\ rdraws > 0 => shape_data # None
    /\ shape_data # None =>
          shape_data[1] = [params |-> rstatic_params, call |-> 1]
    /\ view # None =>
          /\ view[1].shape = shape_data[1]
          /\ view[1].kwargs = rkwargs
          /\ view[1].elev = DefaultView.elev
          /\ view[1].limits = initial_limits[1]
          /\ view[1].azim =
                IF rdraws = 0 THEN DefaultView.azim
                ELSE Frac(rframe_num * 360, rframes)

\* the third frame of three is on the axes after at least two updates, at
\* 240 degrees
C9_Witness ==
    /\ rframes = 3
    /\ rdraws >= 2
    /\ rframe_num = 2
    /\ view # None
    /\ view[1].azim = <<240, 1>>
    /\ rgen_calls = 1

\* C10: errors are propagated, never logged-and-continued: if the generator
\* or the plot callback raises while a frame of animate_pattern_evolution or
\* animate_3d_rotation is produced, with or without an output_filename, the
\* animate function does not return an animation object to its caller.
C10_ErrorsPropagate ==
    /\ epc = "return" =>
          /\ "raise" \notin {utrace[n] : n \in DOMAIN utrace}
          /\ "Traceback" \notin {printed[n] : n \in DOMAIN printed}
    /\ rpc = "return" =>
          ~ (rfail_in = "plot" /\ rplot_calls >= rfail_at)

(***************************************************************************)
(* create_cuboctahedron, create_merkaba (sacred_geometry.shapes.shapes)    *)
(*                                                                         *)
(* A vertex is center + (radius/sqrt(d)) * k for a vector k of small       *)
(* integers: d times the squared distance of two vertices of one solid is  *)
(* radius^2 times the squared length of the difference of their k.         *)
(***************************************************************************)
MaxRadius == 2      \* largest radius

Coords == {-1, 0, 1}

Scaled(center, radius, d, k) == [o |-> center, s |-> radius, d |-> d, k |-> k]

Dot(u, v) == u[1] * v[1] + u[2] * v[2] + u[3] * v[3]

Minus(u, v) == <<u[1] - v[1], u[2] - v[2], u[3] - v[3]>>

\* d times the squared distance of two vertices of one solid
SqDist(p, q) == p.s * p.s * Dot(Minus(p.k, q.k), Minus(p.k, q.k))

\* d times the squared distance of a vertex from its center
SqNorm(p) == p.s * p.s * Dot(p.k, p.k)

\* the 0-based index of x in a list
IndexOf(list, x) == (CHOOSE i \in DOMAIN list : list[i] = x) - 1

\* the edges of a solid, computed from its faces: the pairs of vertices that
\* follow each other around a face
edges_from_faces(faces) ==
    UNION { { {f[i], f[(i % Len(f)) + 1]} : i \in DOMAIN f } :
            f \in {faces[n] : n \in DOMAIN faces} }

\* (+-1, +-1, 0), (+-1, 0, +-1), (0, +-1, +-1)
CuboctahedronDirs ==
    << <<1, 1, 0>>, <<1, -1, 0>>, <<-1, 1, 0>>, <<-1, -1, 0>>,
       <<1, 0, 1>>, <<1, 0, -1>>, <<-1, 0, 1>>, <<-1, 0, -1>>,
       <<0, 1, 1>>, <<0, 1, -1>>, <<0, -1, 1>>, <<0, -1, -1>> >>

Signs3 ==
    << <<1, 1, 1>>, <<1, 1, -1>>, <<1, -1, 1>>, <<1, -1, -1>>,
       <<-1, 1, 1>>, <<-1, 1, -1>>, <<-1, -1, 1>>, <<-1, -1, -1>> >>

\* the triangle cut off at the cube corner g
TriangularFace(g) ==
    << IndexOf(CuboctahedronDirs, <<g[1], g[2], 0>>),
       IndexOf(CuboctahedronDirs, <<g[1], 0, g[3]>>),
       IndexOf(CuboctahedronDirs, <<0, g[2], g[3]>>) >>

\* a square listed by rows instead of around its boundary
SquareFaceByRows(axis, g) ==
    LET Put(a, b) == IF axis = 1 THEN <<g, a, b>>
                     ELSE IF axis = 2 THEN <<a, g, b>> ELSE <<a, b, g>>
    IN  << IndexOf(CuboctahedronDirs, Put(1, 0)),
           IndexOf(CuboctahedronDirs, Put(-1, 0)),
           IndexOf(CuboctahedronDirs, Put(0, 1)),
           IndexOf(CuboctahedronDirs, Put(0, -1)) >>

\* the square left of the cube face axis = g, around its boundary
SquareFace(axis, g) ==
    LET Put(a, b) == IF axis = 1 THEN <<g, a, b>>
                     ELSE IF axis = 2 THEN <<a, g, b>> ELSE <<a, b, g>>
    IN  << IndexOf(CuboctahedronDirs, Put(1, 0)),
           IndexOf(CuboctahedronDirs, Put(0, 1)),
           IndexOf(CuboctahedronDirs, Put(-1, 0)),
           IndexOf(CuboctahedronDirs, Put(0, -1)) >>

create_cuboctahedron(center, radius) ==
    LET faces == [n \in 1..8 |-> TriangularFace(Signs3[n])]
                 \o [n \in 1..6 |->
                        SquareFace((n + 1) \div 2, IF n % 2 = 1 THEN 1 ELSE -1)]
    IN  [vertices |-> [n \in 1..12 |->
                          Scaled(center, radius, 2, CuboctahedronDirs[n])],
         faces |-> faces,
         edges |-> edges_from_faces(faces)]

\* the standard vertex set of the tetrahedron: alternate corners of a cube
TetrahedronDirs ==
    << <<1, 1, 1>>, <<1, -1, -1>>, <<-1, 1, -1>>, <<-1, -1, 1>> >>

create_tetrahedron(center, radius) ==
    LET faces == << <<0, 1, 2>>, <<0, 3, 1>>, <<0, 2, 3>>, <<1, 3, 2>> >>
    IN  [vertices |-> [n \in 1..4 |->
                          Scaled(center, radius, 3, TetrahedronDirs[n])],
         faces |-> faces,
         edges |-> edges_from_faces(faces)]

\* an inversion that flips two coordinates
flip_xy(k) == <<-k[1], -k[2], k[3]>>

\* the y-coordinate, relative to the center, sign-flipped
flip_y(k) == <<k[1], -k[2], k[3]>>

\* a rotation about the y-axis by q quarter turns
RECURSIVE rotate_y(_, _)
rotate_y(k, q) == IF q = 0 THEN k ELSE rotate_y(<<k[3], k[2], -k[1]>>, q - 1)

\* a solid inverted: every vertex flipped
Inverted(solid) ==
    [solid EXCEPT !.vertices =
        [n \in DOMAIN solid.vertices |->
            [solid.vertices[n] EXCEPT !.k = flip_y(solid.vertices[n].k)]]]

\* a solid rotated about the y-axis through its center
Rotated(solid, rotation) ==
    [solid EXCEPT !.vertices =
        [n \in DOMAIN solid.vertices |->
            [solid.vertices[n] EXCEPT !.k = rotate_y(solid.vertices[n].k, rotation)]]]

create_merkaba(center, radius, rotation) ==
    LET tetra1 == create_tetrahedron(center, radius)
        tetra2 == Inverted(tetra1)
    IN  [tetrahedron1 |-> Rotated(tetra1, rotation),
         tetrahedron2 |-> Rotated(tetra2, rotation)]

IdleShapes ==
    /\ shape_fn = ""
    /\ scenter = <<>>
    /\ sradius = 0
    /\ srotation = 0
    /\ sresult = None
    /\ spc = "idle"

CallShapes ==
    /\ shape_fn \in {"create_cuboctahedron", "create_merkaba",
                     "create_pentagram", "create_hexagram"}
    /\ IF shape_fn \in {"create_pentagram", "create_hexagram"}
       THEN scenter \in Coords \X Coords
       ELSE scenter \in Coords \X Coords \X Coords
    /\ sradius \in 1..MaxRadius
    /\ srotation \in {0, 1}
    /\ shape_fn # "create_merkaba" => srotation = 0
    /\ sresult = None
    /\ spc = "call"

CreateCuboctahedron ==
    /\ spc = "call"
    /\ shape_fn = "create_cuboctahedron"
    /\ sresult' = Some(create_cuboctahedron(scenter, sradius))
    /\ spc' = "return"
    /\ UNCHANGED <<shape_fn, scenter, sradius, srotation>>
    /\ UNCHANGED notShapes

CreateMerkaba ==
    /\ spc = "call"
    /\ shape_fn = "create_merkaba"
    /\ sresult' = Some(create_merkaba(scenter, sradius, srotation))
    /\ spc' = "return"
    /\ UNCHANGED <<shape_fn, scenter, sradius, srotation>>
    /\ UNCHANGED notShapes

\* the set of entries of a list
Range(list) == {list[n] : n \in DOMAIN list}

\* C17: create_cuboctahedron(center, radius) yields 12 vertices, the
\* coordinate permutations of (+-1, +-1, 0) scaled by radius/sqrt(2) and
\* translated to center; 8 triangular and 6 square faces whose indices are
\* all valid vertex indices; and exactly 24 distinct edges derived from the
\* faces.  Every vertex is at squared distance radius^2 from center and
\* every edge has length radius.
C17_Cuboctahedron ==
    (spc = "return" /\ shape_fn = "create_cuboctahedron") =>
        LET solid == sresult[1]
            V == solid.vertices
        IN  /\ Len(V) = 12
            /\ Cardinality(Range(V)) = 12
            /\ Range(V) =
                  {Scaled(scenter, sradius, 2, k) :
                      k \in {d \in Coords \X Coords \X Coords : Dot(d, d) = 2}}
            /\ Len(solid.faces) = 14
            /\ Cardinality({n \in DOMAIN solid.faces : Len(solid.faces[n]) = 3}) = 8
            /\ Cardinality({n \in DOMAIN solid.faces : Len(solid.faces[n]) = 4}) = 6
            /\ \A n \in DOMAIN solid.faces :
                  /\ Range(solid.faces[n]) \subseteq 0..11
                  /\ Cardinality(Range(solid.faces[n])) = Len(solid.faces[n])
            /\ Cardinality(solid.edges) = 24
            /\ solid.edges = edges_from_faces(solid.faces)
            /\ \A n \in DOMAIN V : SqNorm(V[n]) = 2 * sradius * sradius
            /\ \A e \in solid.edges : \A a \in e : \A b \in e :
                  a # b => SqDist(V[a + 1], V[b + 1]) = 2 * sradius * sradius

\* a cuboctahedron of radius 2 was built away from the origin
C17_Witness ==
    /\ spc = "return"
    /\ shape_fn = "create_cuboctahedron"
    /\ sradius = 2
    /\ scenter = <<1, -1, 0>>
    /\ Len(sresult[1].vertices) = 12

\* C18: create_merkaba(center, radius, rotation = 0) returns tetrahedron1
\* and tetrahedron2, each a full solid with 4 vertices at distance radius
\* from the shared center; tetrahedron2's vertex set is tetrahedron1's with
\* the y-coordinate, relative to the center, sign-flipped; the two vertex
\* sets are disjoint, and together the 8 vertices are the corners of a cube
\* centered at center.
C18_Merkaba ==
    (spc = "return" /\ shape_fn = "create_merkaba" /\ srotation = 0) =>
        LET t1 == sresult[1].tetrahedron1
            t2 == sresult[1].tetrahedron2
            V1 == Range(t1.vertices)
            V2 == Range(t2.vertices)
        IN  /\ DOMAIN sresult[1] = {"tetrahedron1", "tetrahedron2"}
            /\ \A t \in {t1, t2} :
                  /\ Len(t.vertices) = 4
                  /\ Cardinality(Range(t.vertices)) = 4
                  /\ Len(t.faces) = 4
                  /\ Cardinality(t.edges) = 6
                  /\ \A n \in DOMAIN t.vertices :
                        /\ t.vertices[n].o = scenter
                        /\ t.vertices[n].s = sradius
                        /\ SqNorm(t.vertices[n])
                              = t.vertices[n].d * sradius * sradius
            /\ V2 = {[v EXCEPT !.k = <<v.k[1], -v.k[2], v.k[3]>>] : v \in V1}
            /\ V1 \cap V2 = {}
            /\ V1 \cup V2 =
                  {Scaled(scenter, sradius, 3, k) :
                      k \in {-1, 1} \X {-1, 1} \X {-1, 1}}

\* an unrotated merkaba of radius 2 was built away from the origin
C18_Witness ==
    /\ spc = "return"
    /\ shape_fn = "create_merkaba"
    /\ srotation = 0
    /\ sradius = 2
    /\ scenter = <<0, 1, -1>>
    /\ Len(sresult[1].tetrahedron2.vertices) = 4

(***************************************************************************)
(* create_pentagram, create_hexagram                                       *)
(***************************************************************************)
\* array[order]: the rows of array picked by a list of 0-based indices
Take(array, order) == [n \in DOMAIN order |-> array[order[n] + 1]]

\* an order that walks around the pentagon
PolygonOrder == <<0, 1, 2, 3, 4, 0>>

\* "visit vertices in star order and return to start"
StarOrder == <<0, 2, 4, 1, 3, 0>>

create_pentagram(center, radius) ==
    LET pentagon == create_regular_polygon(center, radius, 5, 0, Turn(5))
        star_points == Take(pentagon, StarOrder)
    IN  star_points

\* a point rotated by half a turn about its own center
HalfTurn(p, turn) == Polar(p.o, p.r, p.a + turn \div 2, turn)

\* point * np.array([-1, 1]): the x-coordinate negated, the y-coordinate
\* kept: (ox + r cos a, oy + r sin a) becomes (-ox + r cos(pi - a), oy + r
\* sin(pi - a))
NegateX(p, turn) == Polar(<<-p.o[1], p.o[2]>>, p.r, turn \div 2 - p.a, turn)

create_hexagram(center, radius) ==
    LET turn == Turn(3)
        \* np.pi/2
        rotation == 3 * (FullTurn \div 4)
        polygon == create_regular_polygon(center, radius, 3, rotation, turn)
        \* np.vstack([triangle1, triangle1[0]])
        triangle1 == Append(polygon, polygon[1])
        triangle2 == [n \in DOMAIN triangle1 |-> NegateX(triangle1[n], turn)]
    IN  <<triangle1, triangle2>>

CreatePentagram ==
    /\ spc = "call"
    /\ shape_fn = "create_pentagram"
    /\ sresult' = Some(create_pentagram(scenter, sradius))
    /\ spc' = "return"
    /\ UNCHANGED <<shape_fn, scenter, sradius, srotation>>
    /\ UNCHANGED notShapes

CreateHexagram ==
    /\ spc = "call"
    /\ shape_fn = "create_hexagram"
    /\ sresult' = Some(create_hexagram(scenter, sradius))
    /\ spc' = "return"
    /\ UNCHANGED <<shape_fn, scenter, sradius, srotation>>
    /\ UNCHANGED notShapes

\* C19: create_pentagram returns a closed path of 6 points over the 5
\* vertices of the regular pentagon (counter-clockwise index order 0..4):
\* the path visits the vertices in the order 0, 2, 4, 1, 3, 0, so its first
\* and last points coincide, every pentagon vertex is visited exactly once
\* before closing, and each of the 5 segments joins two vertices that are
\* two steps apart on the pentagon, never adjacent ones.
C19_Pentagram ==
    (spc = "return" /\ shape_fn = "create_pentagram") =>
        LET star == sresult[1]
            turn == 5 * FullTurn
            Vertex(j) == Polar(scenter, sradius, j * FullTurn, turn)
        IN  /\ Len(star) = 6
            /\ star = <<Vertex(0), Vertex(2), Vertex(4), Vertex(1), Vertex(3),
                        Vertex(0)>>
            /\ star[1] = star[6]
            /\ {star[n] : n \in 1..5} = {Vertex(j) : j \in 0..4}
            /\ Cardinality({star[n] : n \in 1..5}) = 5
            /\ \A n \in 1..5 :
                  (star[n + 1].a - star[n].a) % turn
                      \in {2 * FullTurn, 3 * FullTurn}

\* a pentagram of radius 2 was drawn away from the origin
C19_Witness ==
    /\ spc = "return"
    /\ shape_fn = "create_pentagram"
    /\ sradius = 2
    /\ scenter = <<1, -1>>
    /\ Len(sresult[1]) = 6

\* twice the cosine of j twelfths of a turn, as <<a, b>> for a + b*sqrt(3)
TwiceCos12(j) ==
    LET q == j % 12
    IN  IF q = 0 THEN <<2, 0>>
        ELSE IF q \in {1, 11} THEN <<0, 1>>
        ELSE IF q \in {2, 10} THEN <<1, 0>>
        ELSE IF q \in {3, 9} THEN <<0, 0>>
        ELSE IF q \in {4, 8} THEN <<-1, 0>>
        ELSE IF q \in {5, 7} THEN <<0, -1>>
        ELSE <<-2, 0>>

\* twice the coordinates of a point whose angle is a whole number of
\* twelfths of a turn, each as <<a, b>> for a + b*sqrt(3): two points are
\* the same point exactly if these are equal
C20_Coordinates(p, turn) ==
    LET j == p.a \div (turn \div 12)
        c == TwiceCos12(j)
        sn == TwiceCos12(j - 3)
    IN  << <<2 * p.o[1] + p.r * c[1], p.r * c[2]>>,
           <<2 * p.o[2] + p.r * sn[1], p.r * sn[2]>> >>

\* C20: create_hexagram(center, radius) returns two closed equilateral
\* triangles with the same circumcenter center and circumradius radius, one
\* pointing up and the other pointing down: for every center the second
\* triangle is the first rotated by 180 degrees about center, so the two
\* triangles have disjoint vertex sets whose union is six points spaced 60
\* degrees apart around center.
C20_Hexagram ==
    (spc = "return" /\ shape_fn = "create_hexagram") =>
        LET turn == 3 * FullTurn
            twelfth == turn \div 12
            triangle1 == sresult[1][1]
            triangle2 == sresult[1][2]
            Around(j) == Polar(scenter, sradius, j * twelfth, turn)
            Points(t) == {C20_Coordinates(t[n], turn) : n \in DOMAIN t}
        IN  /\ Len(sresult[1]) = 2
            /\ \A t \in {triangle1, triangle2} : Len(t) = 4 /\ t[4] = t[1]
            /\ Points(triangle1)
                  = {C20_Coordinates(Around(j), turn) : j \in {3, 7, 11}}
            /\ Points(triangle2)
                  = {C20_Coordinates(HalfTurn(triangle1[n], turn), turn) :
                        n \in DOMAIN triangle1}
            /\ Points(triangle1) \cap Points(triangle2) = {}
            /\ Points(triangle1) \cup Points(triangle2)
                  = {C20_Coordinates(Around(j), turn) : j \in {1, 3, 5, 7, 9, 11}}

(***************************************************************************)
(* color_schemes: gradients and colour mapping                             *)
(*                                                                         *)
(* A hex colour "#rrggbb" is the sequence of its six hexadecimal digits.   *)
(* A channel value is an exact fraction <<numerator, denominator>>, so     *)
(* the arithmetic is that of the formulas as written, without the          *)
(* rounding of floating point.                                             *)
(***************************************************************************)
MaxColors == 3
MaxPalette == 3
MaxSteps == 2

\* "#FF0000" and "#0000FF" of the module's own test, and "#1a1a2e"
HexColors == {<<15, 15, 0, 0, 0, 0>>, <<0, 0, 0, 0, 15, 15>>,
              <<1, 10, 1, 10, 2, 14>>}

\* int(hex_color[i:i+2], 16) / 255.0 for i in (0, 2, 4)
hex_to_rgb(hex_color) ==
    [c \in 1..3 |-> Frac(16 * hex_color[2 * c - 1] + hex_color[2 * c], 255)]

FracAdd(a, b) == Frac(a[1] * b[2] + b[1] * a[2], a[2] * b[2])
FracTimes(a, k) == Frac(a[1] * k, a[2])
FracOver(a, k) == Frac(a[1], a[2] * k)

IdleColors ==
    /\ color_fn = ""
    /\ start_hex = None
    /\ finish_hex = None
    /\ gn = 0
    /\ palette = None
    /\ num_steps_between = 0
    /\ gvalue = 0
    /\ min_val = 0
    /\ max_val = 0
    /\ colormap = None
    /\ default_color_hex = None
    /\ gprinted = <<>>
    /\ gresult = None
    /\ gerror = ""
    /\ gpc = "idle"

\* the outcome of a call: the value it returns, or the exception it raises
Returns(value) == [raised |-> "", printed |-> <<>>, value |-> Some(value)]
Raise(exception) == [raised |-> exception, printed |-> <<>>, value |-> None]

\* lines 625-635: one colour per i in range(n); every iteration divides by
\* n - 1
linear_gradient(s_hex, f_hex, n) ==
    LET s == hex_to_rgb(s_hex)
        f == hex_to_rgb(f_hex)
        color(i) ==
            [c \in 1..3 |->
                FracAdd(FracOver(FracTimes(s[c], n - 1 - i), n - 1),
                        FracOver(FracTimes(f[c], i), n - 1))]
    IN  IF n >= 1 /\ n - 1 = 0 THEN Raise("ZeroDivisionError")
        ELSE Returns([k \in 1..n |-> color(k - 1)])

\* a segment kept whole
KeepAll(list) == list

\* segment_gradient[:-1]
DropLast(list) == SubSeq(list, 1, Len(list) - 1)

\* lines 656-661: the segments of the first i pairs of palette colours
RECURSIVE full_gradient_rgb(_, _, _)
full_gradient_rgb(pal, steps, i) ==
    IF i = 0 THEN <<>>
    ELSE full_gradient_rgb(pal, steps, i - 1)
            \o DropLast(linear_gradient(pal[i], pal[i + 1], steps + 1).value[1])

\* lines 652-664
create_gradient_from_palette(pal, steps) ==
    IF pal = None \/ Len(pal) < 2 THEN Raise("ValueError")
    ELSE IF linear_gradient(pal[1], pal[2], steps + 1).raised # ""
         THEN Raise(linear_gradient(pal[1], pal[2], steps + 1).raised)
    ELSE Returns(Append(full_gradient_rgb(pal, steps, Len(pal) - 1),
                        hex_to_rgb(pal[Len(pal)])))

\* lines 567-569: the names the module's imports bind
ModuleGlobals == {"np", "List", "Tuple", "Dict", "Union", "Callable",
                  "Optional", "matplotlib"}

\* PALETTE_ELEMENTAL_FIRE and PALETTE_COSMIC_DUSK, by the names a caller
\* passes: f"PALETTE_{name.upper().replace(' ', '_')}"
PredefinedPalettes ==
    [k \in {"Elemental Fire", "Cosmic Dusk"} |->
        IF k = "Elemental Fire"
        THEN << <<15, 15, 2, 4, 0, 0>>, <<15, 15, 4, 5, 0, 0>>,
                <<15, 15, 6, 3, 4, 7>>, <<15, 15, 7, 15, 5, 0>>,
                <<15, 15, 8, 12, 0, 0>>, <<15, 15, 10, 5, 0, 0>> >>
        ELSE << <<0, 11, 0, 12, 1, 0>>, <<1, 15, 2, 8, 3, 3>>,
                <<12, 5, 12, 6, 12, 7>>, <<6, 6, 15, 12, 15, 1>>,
                <<4, 5, 10, 2, 9, 14>> >>]

\* the built-in colormaps of matplotlib, each by its first and last colour
BuiltinColormaps ==
    [k \in {"viridis"} |->
        <<hex_to_rgb(<<4, 4, 0, 1, 5, 4>>), hex_to_rgb(<<15, 13, 14, 7, 2, 5>>)>>]

Max(a, b) == IF a >= b THEN a ELSE b

\* lines 692-742, with palette_or_gradient None or a list; a list is given
\* with the type of its elements
get_matplotlib_colormap(name, palette_or_gradient, n_colors) ==
    LET two(colors) ==
            IF Len(colors) = 1 THEN Returns(<<colors[1], colors[1]>>)
            ELSE IF Len(colors) = 0 THEN Raise("ValueError")
            ELSE Returns(colors)
    IN  IF palette_or_gradient = None
        THEN IF name \in DOMAIN PredefinedPalettes
             THEN LET palette_hex == PredefinedPalettes[name]
                      made == create_gradient_from_palette(palette_hex,
                                n_colors \div Max(1, Len(palette_hex) - 1))
                  IN  IF made.raised # "" THEN made ELSE two(made.value[1])
             ELSE Raise("ValueError")
        ELSE IF palette_or_gradient.type = "list"
        THEN LET list == palette_or_gradient.items
             IN  IF Len(list) = 0 THEN Raise("ValueError")
                 ELSE IF palette_or_gradient.of = "str"
                 THEN IF Len(list) < n_colors \div 10 /\ Len(list) > 1
                      THEN LET made == create_gradient_from_palette(list,
                                         n_colors \div Max(1, Len(list) - 1))
                           IN  IF made.raised # "" THEN made
                               ELSE two(made.value[1])
                      ELSE two([k \in DOMAIN list |-> hex_to_rgb(list[k])])
                 ELSE IF palette_or_gradient.of = "tuple" THEN two(list)
                 ELSE Raise("TypeError")
        ELSE Raise("TypeError")

\* np.clip(norm_value, 0.0, 1.0)
clip(x) ==
    IF x[1] < 0 THEN Frac(0, 1) ELSE IF x[1] > x[2] THEN Frac(1, 1) ELSE x

\* lines 768-772
norm_value(value, lo, hi) ==
    IF lo >= hi THEN Frac(1, 2) ELSE clip(Frac(value - lo, hi - lo))

\* cmap_obj(norm_value)[:3] of a colormap with the listed colors
ColormapAt(colors, x) ==
    LET N == Len(colors)
        index == (x[1] * N) \div x[2]
    IN  colors[(IF index >= N THEN N - 1 ELSE index) + 1]

\* lines 768-802
map_value_to_color(value, lo, hi, cmap, default_hex) ==
    LET x == norm_value(value, lo, hi)
        fallback(message) ==
            [raised |-> "", printed |-> <<message>>,
             value |-> Some(hex_to_rgb(default_hex))]
        custom == get_matplotlib_colormap(cmap.name, None, 256)
        listed == get_matplotlib_colormap("custom_list_cmap", cmap, 256)
    IN  IF cmap.type = "Colormap" THEN Returns(ColormapAt(cmap.items, x))
        ELSE IF cmap.type = "str"
        THEN IF "plt" \notin ModuleGlobals THEN Raise("NameError")
             ELSE IF cmap.name \in DOMAIN BuiltinColormaps
             THEN Returns(ColormapAt(BuiltinColormaps[cmap.name], x))
             ELSE IF custom.raised = "ValueError"
             THEN fallback("Warning: Colormap or palette not found. Using default color.")
             ELSE IF custom.raised # "" THEN custom
             ELSE Returns(ColormapAt(custom.value[1], x))
        ELSE IF cmap.type = "list"
        THEN IF listed.raised \in {"TypeError", "ValueError"}
             THEN fallback("Warning: Could not create colormap from list. Using default color.")
             ELSE IF listed.raised # "" THEN listed
             ELSE Returns(ColormapAt(listed.value[1], x))
        ELSE fallback("Warning: Invalid colormap type. Using default color.")

\* the colormaps a caller passes: names, a Colormap, lists and a number
Colormaps ==
    {[type |-> "str", name |-> n, of |-> "", items |-> <<>>] :
        n \in {"viridis", "Elemental Fire", "no such colormap"}}
    \cup {[type |-> "Colormap", name |-> "", of |-> "",
           items |-> <<hex_to_rgb(h), hex_to_rgb(g)>>] :
            h \in HexColors, g \in HexColors}
    \cup {[type |-> "list", name |-> "", of |-> "", items |-> <<>>]}
    \cup {[type |-> "list", name |-> "", of |-> "str", items |-> l] :
            l \in [1..1 -> HexColors] \cup [1..2 -> HexColors]}
    \cup {[type |-> "list", name |-> "", of |-> "tuple",
           items |-> <<hex_to_rgb(h)>>] : h \in HexColors}
    \cup {[type |-> "list", name |-> "", of |-> "int", items |-> <<Frac(7, 1)>>]}
    \cup {[type |-> "int", name |-> "", of |-> "", items |-> <<>>]}

CallColors ==
    /\ color_fn \in {"linear_gradient", "create_gradient_from_palette",
                     "map_value_to_color"}
    /\ IF color_fn = "linear_gradient"
       THEN /\ start_hex \in HexColors
            /\ finish_hex \in HexColors
            /\ gn \in 0..MaxColors
       ELSE start_hex = None /\ finish_hex = None /\ gn = 0
    /\ IF color_fn = "create_gradient_from_palette"
       THEN /\ palette \in SeqsUpTo(HexColors, MaxPalette)
            /\ num_steps_between \in 0..MaxSteps
       ELSE palette = None /\ num_steps_between = 0
    /\ IF color_fn = "map_value_to_color"
       THEN /\ gvalue \in {0, 1, 3}
            /\ min_val = 0
            /\ max_val \in {0, 2}
            /\ colormap \in Colormaps
            /\ default_color_hex \in {<<15, 15, 15, 15, 15, 15>>,
                                      <<0, 0, 0, 0, 0, 0>>}
       ELSE /\ gvalue = 0 /\ min_val = 0 /\ max_val = 0
            /\ colormap = None /\ default_color_hex = None
    /\ gprinted = <<>>
    /\ gresult = None
    /\ gerror = ""
    /\ gpc = "call"

\* the call runs to its return or to the exception it raises
Finish(outcome) ==
    /\ gprinted' = outcome.printed
    /\ gresult' = outcome.value
    /\ gerror' = outcome.raised
    /\ gpc' = IF outcome.raised = "" THEN "return" ELSE "raised"
    /\ UNCHANGED <<color_fn, start_hex, finish_hex, gn, palette,
                   num_steps_between, gvalue, min_val, max_val, colormap,
                   default_color_hex>>
    /\ UNCHANGED notColors

LinearGradient ==
    /\ gpc = "call"
    /\ color_fn = "linear_gradient"
    /\ Finish(linear_gradient(start_hex, finish_hex, gn))

CreateGradientFromPalette ==
    /\ gpc = "call"
    /\ color_fn = "create_gradient_from_palette"
    /\ Finish(create_gradient_from_palette(palette, num_steps_between))

MapValueToColor ==
    /\ gpc = "call"
    /\ color_fn = "map_value_to_color"
    /\ Finish(map_value_to_color(gvalue, min_val, max_val, colormap,
                                 default_color_hex))

\* C21: linear_gradient(start_hex, finish_hex, n) returns a list of exactly
\* n RGB colors for every n >= 1; its first color is the start color, for
\* n >= 2 its last color is the finish color, and the channels of color i
\* are start*(n-1-i)/(n-1) + finish*i/(n-1).
C21_LinearGradient ==
    (color_fn = "linear_gradient" /\ gpc # "call" /\ gn >= 1) =>
        /\ gpc = "return"
        /\ Len(gresult[1]) = gn
        /\ gresult[1][1] = hex_to_rgb(start_hex)
        /\ gn >= 2 => gresult[1][gn] = hex_to_rgb(finish_hex)
        /\ \A i \in 0..(gn - 1) : \A c \in 1..3 :
              gresult[1][i + 1][c]
                = Frac(hex_to_rgb(start_hex)[c][1] * (gn - 1 - i)
                         + hex_to_rgb(finish_hex)[c][1] * i,
                       255 * (gn - 1))

\* a colormap argument that cannot be resolved: a name that is neither
\* built in nor a predefined palette, a list no colormap can be built from,
\* a value of another type
C22_Unresolvable(cmap) ==
    \/ cmap.type = "str" /\ cmap.name \notin DOMAIN BuiltinColormaps
                         /\ cmap.name \notin DOMAIN PredefinedPalettes
    \/ cmap.type = "list" /\ (cmap.items = <<>> \/ cmap.of \notin {"str", "tuple"})
    \/ cmap.type \notin {"str", "list", "Colormap"}

\* the colors of the colormap a name resolves to
C22_ColorsOf(name) ==
    IF name \in DOMAIN BuiltinColormaps THEN Range(BuiltinColormaps[name])
    ELSE Range(get_matplotlib_colormap(name, None, 256).value[1])

\* C22: map_value_to_color falls back instead of failing: with a colormap
\* argument that cannot be resolved it returns default_color_hex converted
\* to RGB and raises no error; with a resolvable name it returns a color of
\* that colormap.
C22_FallsBack ==
    (color_fn = "map_value_to_color" /\ gpc # "call") =>
        /\ C22_Unresolvable(colormap) =>
              /\ gpc = "return"
              /\ gerror = ""
              /\ gresult = Some(hex_to_rgb(default_color_hex))
        /\ (colormap.type = "str" /\ ~ C22_Unresolvable(colormap)) =>
              /\ gpc = "return"
              /\ gresult[1] \in C22_ColorsOf(colormap.name)

\* C28: create_gradient_from_palette(palette, s) with m >= 2 palette colors
\* and s >= 1 returns exactly (m-1)*s + 1 colors, palette color j at index
\* j*s (the first is palette[0], the last palette[m-1]), no color doubled
\* where two segments join; a palette of fewer than 2 colors ends in a
\* ValueError and returns nothing.
C28_PaletteGradient ==
    (color_fn = "create_gradient_from_palette" /\ gpc # "call") =>
        /\ (Len(palette) >= 2 /\ num_steps_between >= 1) =>
              /\ gpc = "return"
              /\ Len(gresult[1]) = (Len(palette) - 1) * num_steps_between + 1
              /\ \A j \in 0..(Len(palette) - 1) :
                    gresult[1][j * num_steps_between + 1]
                      = hex_to_rgb(palette[j + 1])
        /\ Len(palette) < 2 =>
              gpc = "raised" /\ gerror = "ValueError" /\ gresult = None

C28_Witness ==
    /\ color_fn = "create_gradient_from_palette"
    /\ gpc = "return"
    /\ Len(palette) = 3
    /\ num_steps_between = 2
    /\ palette[1] # palette[2]
    /\ Len(gresult[1]) = 5

(***************************************************************************)
(* continue_statement_demo: process_positive_numbers and                   *)
(* simulate_process_with_continue                                          *)
(***************************************************************************)
MaxNumbers == 3

\* the values of test_numbers, by sign
Numbers == {-3, 0, 5}

\* random.randint(0, 3)
Events == 0..3

IdleNotebook ==
    /\ demo_fn = ""
    /\ numbers = <<>>
    /\ num_pos = 0
    /\ result = <<>>
    /\ max_attempts = 0
    /\ attempt = 0
    /\ successful_operations = 0
    /\ event = None
    /\ event_counts = [e \in Events |-> 0]
    /\ iterations = 0
    /\ dprinted = <<>>
    /\ dresult = None
    /\ dpc = "idle"

CallNotebook ==
    /\ demo_fn \in {"process_positive_numbers",
                    "simulate_process_with_continue"}
    /\ IF demo_fn = "process_positive_numbers"
       THEN numbers \in SeqsUpTo(Numbers, MaxNumbers)
       ELSE numbers = <<>>
    /\ num_pos = 0
    /\ result = <<>>
    /\ max_attempts = 0
    /\ attempt = 0
    /\ successful_operations = 0
    /\ event = None
    /\ event_counts = [e \in Events |-> 0]
    /\ iterations = 0
    /\ dprinted = <<>>
    /\ dresult = None
    /\ dpc = "call"

simulateLocals ==
    <<max_attempts, attempt, successful_operations, event, event_counts,
      iterations>>

processLocals == <<numbers, num_pos, result>>

\* line 61
ProcessEnter ==
    /\ dpc = "call"
    /\ demo_fn = "process_positive_numbers"
    /\ result' = <<>>
    /\ num_pos' = 0
    /\ dpc' = "for"
    /\ UNCHANGED <<demo_fn, numbers, simulateLocals, dprinted, dresult>>
    /\ UNCHANGED notNotebook

\* line 64
Skips(num) == num < 0

\* lines 62-71: one iteration of the for loop
ProcessNumber ==
    /\ dpc = "for"
    /\ num_pos < Len(numbers)
    /\ LET num == numbers[num_pos + 1]
       IN  IF Skips(num)
           THEN /\ dprinted' = Append(dprinted, "Skipping negative number")
                /\ UNCHANGED result
           ELSE /\ result' = Append(result, num * num)
                /\ dprinted' = Append(dprinted, "Processed")
    /\ num_pos' = num_pos + 1
    /\ UNCHANGED <<demo_fn, numbers, simulateLocals, dresult, dpc>>
    /\ UNCHANGED notNotebook

\* line 73
ProcessReturn ==
    /\ dpc = "for"
    /\ num_pos = Len(numbers)
    /\ dresult' = Some(result)
    /\ dpc' = "return"
    /\ UNCHANGED <<demo_fn, processLocals, simulateLocals, dprinted>>
    /\ UNCHANGED notNotebook

\* lines 416-418
SimulateEnter ==
    /\ dpc = "call"
    /\ demo_fn = "simulate_process_with_continue"
    /\ max_attempts' = 10
    /\ successful_operations' = 0
    /\ attempt' = 0
    /\ dpc' = "while"
    /\ UNCHANGED <<demo_fn, processLocals, event, event_counts, iterations,
                   dprinted, dresult>>
    /\ UNCHANGED notNotebook

\* lines 420-425: the loop test holds, the attempt is counted and the event
\* drawn
SimulateAttempt ==
    /\ dpc = "while"
    /\ attempt < max_attempts
    /\ attempt' = attempt + 1
    /\ iterations' = iterations + 1
    /\ \E drawn \in Events :
          /\ event' = Some(drawn)
          /\ event_counts' = [event_counts EXCEPT ![drawn] = @ + 1]
    /\ dprinted' = <<"Attempt">>
    /\ dpc' = "event"
    /\ UNCHANGED <<demo_fn, processLocals, max_attempts,
                   successful_operations, dresult>>
    /\ UNCHANGED notNotebook

\* a reading of the events that skips up to 2
BranchSkipsTwo(e) ==
    IF e = 0 THEN "error" ELSE IF e <= 2 THEN "skip" ELSE "success"

\* lines 428, 433, 438: the branch an event takes
Branch(e) == IF e = 0 THEN "error" ELSE IF e = 1 THEN "skip" ELSE "success"

\* lines 428-430: the body ends, the loop goes on
SimulateError ==
    /\ dpc = "event"
    /\ Branch(event[1]) = "error"
    /\ dprinted' = Append(dprinted, "Error occurred")
    /\ event' = None
    /\ dpc' = "while"
    /\ UNCHANGED <<demo_fn, processLocals, max_attempts, attempt,
                   successful_operations, event_counts, iterations, dresult>>
    /\ UNCHANGED notNotebook

\* lines 433-436: continue goes back to the loop test
SimulateSkip ==
    /\ dpc = "event"
    /\ Branch(event[1]) = "skip"
    /\ dprinted' = Append(dprinted, "Skipping this iteration")
    /\ event' = None
    /\ dpc' = "while"
    /\ UNCHANGED <<demo_fn, processLocals, max_attempts, attempt,
                   successful_operations, event_counts, iterations, dresult>>
    /\ UNCHANGED notNotebook

\* lines 438-445: time.sleep(0.2) returns
SimulateSuccess ==
    /\ dpc = "event"
    /\ Branch(event[1]) = "success"
    /\ successful_operations' = successful_operations + 1
    /\ dprinted' = Append(dprinted, "Success")
    /\ event' = None
    /\ dpc' = "while"
    /\ UNCHANGED <<demo_fn, processLocals, max_attempts, attempt,
                   event_counts, iterations, dresult>>
    /\ UNCHANGED notNotebook

\* line 447: the loop test fails, the function returns None
SimulateReturn ==
    /\ dpc = "while"
    /\ ~ (attempt < max_attempts)
    /\ dprinted' = <<"Process complete">>
    /\ dpc' = "return"
    /\ UNCHANGED <<demo_fn, processLocals, simulateLocals, dresult>>
    /\ UNCHANGED notNotebook

RECURSIVE C23_Squares(_)
C23_Squares(list) ==
    IF list = <<>> THEN <<>>
    ELSE (IF Head(list) > 0 THEN <<Head(list) * Head(list)>> ELSE <<>>)
            \o C23_Squares(Tail(list))

\* C23: process_positive_numbers(numbers) returns, in input order, the
\* squares of exactly the strictly positive numbers of the input: negative
\* numbers and zero are skipped, and the result is as long as there are
\* inputs greater than 0.
C23_OnlyPositive ==
    (demo_fn = "process_positive_numbers" /\ dpc = "return") =>
        /\ dresult = Some(C23_Squares(numbers))
        /\ Len(dresult[1]) = Cardinality({n \in DOMAIN numbers : numbers[n] > 0})

\* C29: simulate_process_with_continue terminates whatever the random
\* events are: it returns after exactly max_attempts = 10 iterations (the
\* attempt counter advances in every iteration, those that take continue
\* included), and then successful_operations is the number of iterations
\* whose event was 2 or more, between 0 and 10.
C29_Terminates ==
    /\ (demo_fn = "simulate_process_with_continue") ~> (dpc = "return")
    /\ [](demo_fn = "simulate_process_with_continue" /\ dpc = "return" =>
            /\ max_attempts = 10
            /\ iterations = 10
            /\ attempt = 10
            /\ successful_operations = event_counts[2] + event_counts[3]
            /\ successful_operations \in 0..10)
    /\ [](demo_fn = "simulate_process_with_continue" /\ dpc = "while" =>
            attempt = iterations)

C29_Witness ==
    /\ demo_fn = "simulate_process_with_continue"
    /\ dpc = "return"
    /\ event_counts[1] = 4
    /\ event_counts[0] = 3
    /\ successful_operations = 3

(***************************************************************************)
(* create_animation: the Merkaba rotation animation                        *)
(*                                                                         *)
(* Angles are exact multiples of pi.  pyplot keeps a current figure:       *)
(* plt.figure() makes the new figure current, plt.close() closes the       *)
(* current figure, and plt.figtext() writes on the current figure, which   *)
(* is another figure once the first is closed.  ax.clear() empties the     *)
(* axes and leaves the texts of the figure alone.                          *)
(***************************************************************************)
MaxRenders == 3

num_frames == 48

Figures == {"fig", "other"}

Note == "Optimal Alignment Point with Vector Equilibrium"

IdleAnimation ==
    /\ current_figure = ""
    /\ figtexts = [f \in Figures |-> <<>>]
    /\ ax_artists = {}
    /\ rotations_pi = <<>>
    /\ mframe = None
    /\ mrotation_pi = Frac(0, 1)
    /\ mtitle = None
    /\ mdraws = 0
    /\ aresult = None
    /\ apc = "idle"

CallAnimation ==
    /\ current_figure \in {"", "other"}
    /\ figtexts = [f \in Figures |-> <<>>]
    /\ ax_artists = {}
    /\ rotations_pi = <<>>
    /\ mframe = None
    /\ mrotation_pi = Frac(0, 1)
    /\ mtitle = None
    /\ mdraws = 0
    /\ aresult = None
    /\ apc = "call"

\* lines 3-8 and 75-76: the figure is made and becomes current, the
\* rotations are computed, the FuncAnimation is built, and plt.close()
\* closes the current figure; pyplot is left with the figure it had before,
\* or with none until one is asked for
AnimationCreate ==
    /\ apc = "call"
    /\ rotations_pi' = linspace(0, 2, num_frames)
    /\ current_figure' = "other"
    /\ apc' = "frames"
    /\ UNCHANGED <<figtexts, ax_artists, mframe, mrotation_pi, mtitle,
                   mdraws, aresult>>
    /\ UNCHANGED notAnimation

\* x % y of two fractions, y > 0
FracMod(x, y) ==
    LET n == x[1] * y[2]
        d == y[1] * x[2]
    IN  Frac(n % d, x[2] * y[2])

\* np.isclose(a, b, atol=0.1) of two angles in units of pi:
\* |a - b| * pi <= 0.1 + 1e-5 * |b| * pi, in units of 1e-4 with pi as
\* 355/113; the relative part is below one unit for an angle b under pi
IsClose(a_pi, b_pi) ==
    LET diff == Abs(a_pi[1] * b_pi[2] - b_pi[1] * a_pi[2])
        den == a_pi[2] * b_pi[2]
    IN  355 * 10000 * diff <= 113 * den * 1001

\* lines 54 and 70
Aligned(rotation_pi) ==
    IsClose(FracMod(rotation_pi, Frac(1, 1)), Frac(1, 4))

\* lines 10-73: update(frame)
AnimationUpdate(frame) ==
    /\ apc = "frames"
    /\ mdraws < MaxRenders
    /\ LET rotation == rotations_pi[frame + 1]
           tetrahedra ==
               {[artist |-> "tetrahedron1", color |-> "blue",
                 rotation |-> rotation],
                [artist |-> "tetrahedron2", color |-> "red",
                 rotation |-> rotation]}
           outline ==
               IF Aligned(rotation)
               THEN {[artist |-> "cuboctahedron edges", color |-> "gold",
                      rotation |-> Frac(0, 1)]}
               ELSE {}
       IN  /\ ax_artists' = tetrahedra \cup outline
           /\ mrotation_pi' = rotation
           /\ mtitle' = Some(rotation)
           /\ figtexts' =
                [figtexts EXCEPT ![current_figure] =
                    Append(@, IF Aligned(rotation) THEN Note ELSE "")]
    /\ mframe' = Some(frame)
    /\ mdraws' = mdraws + 1
    /\ UNCHANGED <<current_figure, rotations_pi, aresult, apc>>
    /\ UNCHANGED notAnimation

\* line 78: the frames are rendered from fig and returned as HTML
AnimationReturn ==
    /\ apc = "frames"
    /\ mdraws > 0
    /\ aresult' = Some([figure |-> "fig", frames |-> num_frames])
    /\ apc' = "return"
    /\ UNCHANGED <<current_figure, figtexts, ax_artists, rotations_pi,
                   mframe, mrotation_pi, mtitle, mdraws>>
    /\ UNCHANGED notAnimation

\* the gold outline is among what the axes show
C27_OutlineVisible == \E a \in ax_artists : a.color = "gold"

\* the note can be read on the figure
C27_NoteVisible(f) == \E n \in DOMAIN figtexts[f] : figtexts[f][n] = Note

\* C27: in the Merkaba rotation animation, after every frame update the
\* gold Vector Equilibrium outline and the note 'Optimal Alignment Point
\* with Vector Equilibrium' are visible exactly if the frame's rotation
\* modulo pi is within 0.1 of pi/4; outside the tolerance neither is
\* visible, whatever frames were rendered before.
C27_AlignmentMarks ==
    mframe # None =>
        /\ C27_OutlineVisible <=> Aligned(mrotation_pi)
        /\ C27_NoteVisible("fig") <=> Aligned(mrotation_pi)

\* the same with the note looked for on whatever figure holds it
C27_NoteAnywhere ==
    mframe # None =>
        (\E f \in Figures : C27_NoteVisible(f)) <=> Aligned(mrotation_pi)

\* the outline alone follows the alignment
C27_OutlineFollows ==
    mframe # None => (C27_OutlineVisible <=> Aligned(mrotation_pi))

\* the frames that are aligned
C27_AlignedFrames ==
    apc = "frames" /\ rotations_pi # <<>> =>
        {k \in 0..(num_frames - 1) : Aligned(rotations_pi[k + 1])} = {6, 29, 30}

\* the call of either animate function has ended
C24_Ended == epc \in {"return", "raised"} \/ rpc \in {"return", "raised"}

\* C24 (as stated): in animate_pattern_evolution and animate_3d_rotation
\* saving and showing exclude each other and the animation object is always
\* returned: with output_filename given, save is attempted exactly once
\* (writer 'pillow' iff the name ends with '.gif', otherwise 'ffmpeg') and
\* show is never called; without it, show is called exactly once and save
\* never; a failure inside save does not keep the function from returning
\* the animation object.
C24_SaveXorShow ==
    /\ epc \in {"return", "raised"} =>
          /\ epc = "return" /\ ani # None /\ eresult = ani
          /\ output_filename # None =>
                /\ saves = 1 /\ shows = 0
                /\ writer_name = Some("pillow")
                      <=> EndsWith(output_filename[1], ".gif")
                /\ writer_name = Some("ffmpeg")
                      <=> ~ EndsWith(output_filename[1], ".gif")
          /\ output_filename = None => shows = 1 /\ saves = 0
    /\ rpc \in {"return", "raised"} =>
          /\ rpc = "return" /\ rani # None /\ rresult = rani
          /\ routput_filename # None =>
                /\ rsaves = 1 /\ rshows = 0
                /\ rwriter_name = Some("pillow")
                      <=> EndsWith(routput_filename[1], ".gif")
                /\ rwriter_name = Some("ffmpeg")
                      <=> ~ EndsWith(routput_filename[1], ".gif")
          /\ routput_filename = None => rshows = 1 /\ rsaves = 0

\* C24 (amended): once the FuncAnimation is built, a non-empty
\* output_filename leads to exactly one save attempt (writer 'pillow' iff
\* the name ends with '.gif', otherwise 'ffmpeg'), no show, and the return
\* of the animation object even if save fails; None or an empty name leads
\* to exactly one show and no save, and the animation object is returned
\* unless an exception leaves plt.show.  Before the FuncAnimation is built
\* nothing is saved or shown.
C24_Dispatch ==
    /\ saves + shows <= 1 /\ rsaves + rshows <= 1
    /\ ani = None => saves + shows = 0
    /\ rani = None => rsaves + rshows = 0
    /\ (epc \in {"return", "raised"} /\ ani # None) =>
          /\ Given(output_filename) =>
                /\ epc = "return" /\ eresult = ani
                /\ saves = 1 /\ shows = 0
                /\ writer_name = Some("pillow")
                      <=> EndsWith(output_filename[1], ".gif")
                /\ writer_name = Some("ffmpeg")
                      <=> ~ EndsWith(output_filename[1], ".gif")
          /\ ~ Given(output_filename) =>
                /\ shows = 1 /\ saves = 0 /\ writer_name = None
                /\ epc = "return" => eresult = ani
                /\ epc = "raised" => driver = "show" /\ eerror # ""
    /\ (rpc \in {"return", "raised"} /\ rani # None) =>
          /\ Given(routput_filename) =>
                /\ rpc = "return" /\ rresult = rani
                /\ rsaves = 1 /\ rshows = 0
                /\ rwriter_name = Some("pillow")
                      <=> EndsWith(routput_filename[1], ".gif")
                /\ rwriter_name = Some("ffmpeg")
                      <=> ~ EndsWith(routput_filename[1], ".gif")
          /\ ~ Given(routput_filename) =>
                /\ rshows = 1 /\ rsaves = 0 /\ rwriter_name = None
                /\ rpc = "return" => rresult = rani
                /\ rpc = "raised" => rdriver = "show" /\ rerror # ""

\* a save to a .gif that failed, after which the animation was returned
C24_Witness ==
    /\ rpc = "return"
    /\ routput_filename = Some("rotation.gif")
    /\ rwriter_name = Some("pillow")
    /\ rsaves = 1
    /\ rshows = 0
    /\ Len(rprinted) > 0
    /\ rprinted[Len(rprinted)] = "Error saving animation"
    /\ rresult = rani
    /\ rani # None

\* C25: animate_3d_rotation covers one full turn without repeating a view:
\* frame k (0 <= k < frames) sets the view azimuth to 360*k/frames degrees
\* and leaves the elevation as it was, so the azimuths start at 0, grow by
\* 360/frames from one frame to the next and stay strictly below 360.
C25_FullTurn ==
    (rdraws > 0 /\ view # None) =>
        LET azim == view[1].azim
        IN  /\ rframe_num \in 0..(rframes - 1)
            /\ azim[1] * rframes = 360 * rframe_num * azim[2]
            /\ view[1].elev = DefaultView.elev
            /\ rframe_num = 0 <=> azim = Frac(0, 1)
            /\ rframe_num > 0 =>
                  \* one step of 360/frames above the frame before
                  (azim[1] * rframes - 360 * azim[2])
                      = 360 * (rframe_num - 1) * azim[2]
            /\ 0 <= azim[1] /\ azim[1] < 360 * azim[2]

\* the second frame of three, a third of a turn
C25_Witness ==
    /\ rdraws >= 2
    /\ rframes = 3
    /\ rframe_num = 1
    /\ view # None
    /\ view[1].azim = Frac(120, 1)
    /\ view[1].elev = DefaultView.elev

\* the elements a call works with: those passed, or the default set
C26_Elements ==
    IF segment_elements = None THEN DefaultSegmentElements(base_radius)
    ELSE segment_elements[1]

\* the positions in the element list of the specs of a type, in list order
C26_SpecsOf(elements, type) ==
    LET is(j) == Get(elements[j], "type", None) = type
        count == Cardinality({j \in DOMAIN elements : is(j)})
    IN  [r \in 1..count |->
            CHOOSE j \in DOMAIN elements :
                /\ is(j)
                /\ Cardinality({h \in 1..(j - 1) : is(h)}) = r - 1]

\* what the spec at position j of the list yields in slot i
C26_Element(center, n, elements, i, j) ==
    LET turn == Turn(n)
        def == elements[j]
        slot_angle == i * (turn \div n)
        at == Polar(center, Get(def, "offset_r", 0),
                    slot_angle + Get(def, "offset_angle", 0) * n, turn)
    IN  IF Get(def, "type", None) = "polygon"
        THEN create_regular_polygon(at, Get(def, "radius", 3),
                 Get(def, "sides", 3),
                 Get(def, "rotation", 0) * n + slot_angle, turn)
        ELSE create_circle(at, Get(def, "radius", 3), turn)

\* the elements of one type of all slots, slot by slot and in spec order
\* within a slot
C26_SlotMajor(center, n, elements, type) ==
    LET specs == C26_SpecsOf(elements, type)
        per_slot == Len(specs)
    IN  [k \in 1..(n * per_slot) |->
            C26_Element(center, n, elements, (k - 1) \div per_slot,
                        specs[((k - 1) % per_slot) + 1])]

\* C26: for num_segments = N >= 1 and a segment_elements list with p specs
\* of type 'polygon' and c specs of type 'circle', the mandala has exactly
\* N*p polygons and N*c circles and no lines, in slot-major order (all
\* elements of slot 0 in spec order, then slot 1, ...); without
\* segment_elements the default set gives 2 polygons and 1 circle per slot;
\* base_radius has a part in the output only in that default case.
C26_Counts ==
    (mpc = "return" /\ num_segments >= 1) =>
        LET p == Len(C26_SpecsOf(C26_Elements, "polygon"))
            c == Len(C26_SpecsOf(C26_Elements, "circle"))
        IN  /\ Len(mresult.polygons) = num_segments * p
            /\ Len(mresult.circles) = num_segments * c
            /\ mresult.lines = <<>>
            /\ segment_elements = None => p = 2 /\ c = 1
            /\ mresult.polygons
                  = C26_SlotMajor(mcenter, num_segments, C26_Elements, "polygon")
            /\ mresult.circles
                  = C26_SlotMajor(mcenter, num_segments, C26_Elements, "circle")
            /\ segment_elements = None =>
                  \* the default set is scaled by base_radius
                  \A b \in {2 * LenScale, 3 * LenScale} :
                      b # base_radius =>
                          mresult.circles
                            # C26_SlotMajor(mcenter, num_segments,
                                            DefaultSegmentElements(b), "circle")

\* three slots of a polygon, a circle and a second polygon: six polygons
\* and three circles
C26_Witness ==
    /\ mpc = "return"
    /\ num_segments = 3
    /\ segment_elements # None
    /\ Len(segment_elements[1]) = 2
    /\ Len(C26_SpecsOf(segment_elements[1], "polygon")) = 2
    /\ segment_elements[1][1] # segment_elements[1][2]
    /\ Len(mresult.polygons) = 6

\* the composition of the solids a constellation call asks for
C30_Solids ==
    [3d_shapes |->
        [n \in 1..num_solids |->
            create_solid(solid_type, C16_Center(n - 1), solid_radius)],
     circles |-> <<>>, lines |-> <<>>, polygons |-> <<>>]

InitCombine ==
    /\ CallCombine
    /\ IdleLayered /\ IdleMandala /\ IdleConstellation /\ IdleEvolution
    /\ IdleRotation /\ IdleShapes
    /\ IdleColors
    /\ IdleNotebook
    /\ IdleAnimation

NextCombine == Combine

SpecCombine == InitCombine /\ [][NextCombine]_vars

InitLayered ==
    /\ CallLayered
    /\ IdleCombine /\ IdleMandala /\ IdleConstellation /\ IdleEvolution
    /\ IdleRotation /\ IdleShapes
    /\ IdleColors
    /\ IdleNotebook
    /\ IdleAnimation

NextLayered == LayeredEnter \/ LayeredIterate \/ LayeredReturn

SpecLayered == InitLayered /\ [][NextLayered]_vars

InitMandala ==
    /\ CallMandala
    /\ IdleCombine /\ IdleLayered /\ IdleConstellation /\ IdleEvolution
    /\ IdleRotation /\ IdleShapes
    /\ IdleColors
    /\ IdleNotebook
    /\ IdleAnimation

NextMandala ==
    MandalaEnter \/ MandalaElement \/ MandalaNextSegment \/ MandalaReturn

SpecMandala == InitMandala /\ [][NextMandala]_vars

InitConstellation ==
    /\ CallConstellation
    /\ IdleCombine /\ IdleLayered /\ IdleMandala /\ IdleEvolution
    /\ IdleRotation /\ IdleShapes
    /\ IdleColors
    /\ IdleNotebook
    /\ IdleAnimation

NextConstellation ==
    ConstellationEnter \/ ConstellationIterate \/ ConstellationReturn

SpecConstellation == InitConstellation /\ [][NextConstellation]_vars

InitEvolution ==
    /\ CallEvolution
    /\ IdleCombine /\ IdleLayered /\ IdleMandala /\ IdleConstellation
    /\ IdleRotation /\ IdleShapes
    /\ IdleColors
    /\ IdleNotebook
    /\ IdleAnimation

NextEvolution ==
    \/ EvolutionEnter
    \/ EvolutionSave
    \/ EvolutionShow
    \/ \E k \in 0..(frames - 1) : UpdateBegin(k)
    \/ UpdateGenerate
    \/ UpdatePlot
    \/ EvolutionSaveFails
    \/ EvolutionSaved
    \/ EvolutionSaveExcept
    \/ EvolutionShowRaises
    \/ EvolutionShowReports
    \/ EvolutionShown
    \/ EvolutionReturn

SpecEvolution == InitEvolution /\ [][NextEvolution]_vars

InitRotation ==
    /\ CallRotation
    /\ IdleCombine /\ IdleLayered /\ IdleMandala /\ IdleConstellation
    /\ IdleEvolution /\ IdleShapes
    /\ IdleColors
    /\ IdleNotebook
    /\ IdleAnimation

NextRotation ==
    \/ RotationGenerate
    \/ RotationFirstPlot
    \/ RotationSave
    \/ RotationShow
    \/ \E k \in 0..(rframes - 1) : RotationUpdate(k)
    \/ RotationSaveFails
    \/ RotationSaved
    \/ RotationSaveExcept
    \/ RotationShowRaises
    \/ RotationShowReports
    \/ RotationShown
    \/ RotationReturn

SpecRotation == InitRotation /\ [][NextRotation]_vars

\* a caller that combines two compositions and shows an animation whose
\* callbacks do not fail
InitInputs ==
    /\ CallCombine
    /\ DOMAIN pattern1_data = {"polygons", "solids"}
    /\ DOMAIN pattern2_data = {"polygons"}
    /\ CallEvolution
    /\ fail_in = "none"
    /\ output_filename = None
    /\ kwargs_in = EmptyDict
    /\ ~ is_3d
    /\ IdleLayered /\ IdleMandala /\ IdleConstellation /\ IdleRotation /\ IdleShapes
    /\ IdleColors
    /\ IdleNotebook
    /\ IdleAnimation

NextInputs ==
    \/ Combine
    \/ EvolutionEnter
    \/ EvolutionShow
    \/ \E k \in 0..(frames - 1) : UpdateBegin(k)
    \/ UpdateGenerate
    \/ UpdatePlot
    \/ EvolutionShown
    \/ EvolutionReturn

SpecInputs == InitInputs /\ [][NextInputs]_vars

InitShapes ==
    /\ CallShapes
    /\ IdleCombine /\ IdleLayered /\ IdleMandala /\ IdleConstellation
    /\ IdleEvolution /\ IdleRotation
    /\ IdleColors
    /\ IdleNotebook
    /\ IdleAnimation

NextShapes ==
    \/ CreateCuboctahedron
    \/ CreateMerkaba
    \/ CreatePentagram
    \/ CreateHexagram

SpecShapes == InitShapes /\ [][NextShapes]_vars

InitColors ==
    /\ CallColors
    /\ IdleCombine /\ IdleLayered /\ IdleMandala /\ IdleConstellation
    /\ IdleEvolution /\ IdleRotation /\ IdleShapes
    /\ IdleNotebook
    /\ IdleAnimation

NextColors ==
    \/ LinearGradient
    \/ CreateGradientFromPalette
    \/ MapValueToColor

SpecColors == InitColors /\ [][NextColors]_vars

InitNotebook ==
    /\ CallNotebook
    /\ IdleCombine /\ IdleLayered /\ IdleMandala /\ IdleConstellation
    /\ IdleEvolution /\ IdleRotation /\ IdleShapes /\ IdleColors
    /\ IdleAnimation

NextNotebook ==
    \/ ProcessEnter
    \/ ProcessNumber
    \/ ProcessReturn
    \/ SimulateEnter
    \/ SimulateAttempt
    \/ SimulateError
    \/ SimulateSkip
    \/ SimulateSuccess
    \/ SimulateReturn

SpecNotebook == InitNotebook /\ [][NextNotebook]_vars

\* the interpreter goes on to the next statement as long as there is one
SpecNotebookFair == SpecNotebook /\ WF_vars(NextNotebook)

InitAnimation ==
    /\ CallAnimation
    /\ IdleCombine /\ IdleLayered /\ IdleMandala /\ IdleConstellation
    /\ IdleEvolution /\ IdleRotation /\ IdleShapes /\ IdleColors
    /\ IdleNotebook

NextAnimation ==
    \/ AnimationCreate
    \/ \E frame \in 0..(num_frames - 1) : AnimationUpdate(frame)
    \/ AnimationReturn

SpecAnimation == InitAnimation /\ [][NextAnimation]_vars

\* a caller of either animate function
InitAnimate ==
    /\ \/ CallEvolution /\ IdleRotation
       \/ CallRotation /\ IdleEvolution
    /\ IdleCombine /\ IdleLayered /\ IdleMandala /\ IdleConstellation
    /\ IdleShapes /\ IdleColors /\ IdleNotebook /\ IdleAnimation

NextAnimate ==
    \/ EvolutionEnter
    \/ EvolutionSave
    \/ EvolutionShow
    \/ \E k \in 0..(frames - 1) : UpdateBegin(k)
    \/ UpdateGenerate
    \/ UpdatePlot
    \/ EvolutionSaveFails
    \/ EvolutionSaved
    \/ EvolutionSaveExcept
    \/ EvolutionShowRaises
    \/ EvolutionShowReports
    \/ EvolutionShown
    \/ EvolutionReturn
    \/ RotationGenerate
    \/ RotationFirstPlot
    \/ RotationSave
    \/ RotationShow
    \/ \E k \in 0..(rframes - 1) : RotationUpdate(k)
    \/ RotationSaveFails
    \/ RotationSaved
    \/ RotationSaveExcept
    \/ RotationShowRaises
    \/ RotationShowReports
    \/ RotationShown
    \/ RotationReturn

SpecAnimate == InitAnimate /\ [][NextAnimate]_vars

\* a caller of either composition function that takes rotation arguments
InitCompositions ==
    /\ \/ CallLayered /\ IdleConstellation
       \/ CallConstellation /\ IdleLayered
    /\ IdleCombine /\ IdleMandala /\ IdleEvolution /\ IdleRotation
    /\ IdleShapes /\ IdleColors /\ IdleNotebook /\ IdleAnimation

NextCompositions ==
    \/ LayeredEnter
    \/ LayeredIterate
    \/ LayeredReturn
    \/ ConstellationEnter
    \/ ConstellationIterate
    \/ ConstellationReturn

SpecCompositions == InitCompositions /\ [][NextCompositions]_vars
====
